---- MODULE Spec2Model ----
(***************************************************************************)
(* product-factory: the evaluation-and-derivation pipeline.                *)
(*                                                                         *)
(* Part 1  text helpers (strings are sequences of one-character strings)   *)
(* Part 2  AI invocation router and cost ledger  (src/src/ai/client.ts)    *)
(* Part 3  topic grouping of signals  (src/src/agents/analyst/index.ts)    *)
(* Part 4  the stage runs: Scout, Analyst, Deriver, Competitive Check,     *)
(*         Keyword Validation; the enum normalizers of the Deriver         *)
(* Part 5  specifications                                                  *)
(* Part 6  properties                                                      *)
(*                                                                         *)
(* Money is counted in units of 0.25 micro-dollar (2.5e-7 USD), the        *)
(* largest unit in which every per-token rate of config.cost is a whole    *)
(* number; the clock `now` is Date.now() in milliseconds.                  *)
(***************************************************************************)
EXTENDS Integers, Sequences, FiniteSets, TLC

VARIABLES
    now,                    \* Date.now(), ms
    ai_api_keys,            \* table ai_api_keys: key id -> row
    exhaustedProviderCache, \* Map "provider:model" -> expiry (ms)
    cost_tracking,          \* table cost_tracking: sequence of rows
    calls,                  \* per caller: the aiGenerateJson invocation in progress
    ncalls,                 \* number of invocations started so far (bounded)
    lastQuotaError,         \* history: pair -> time of the last quota-class error, -1 if none
    batch,                  \* the signals handed to groupSignalsByTopic
    groups,                 \* what groupSignalsByTopic returned
    grouped,                \* whether it has returned
    signals,                \* table signals: signal id -> status ("none": not saved yet)
    raw_data,               \* column signals.raw_data: signal id -> its dismiss_reason
    opportunities,          \* table opportunities: sequence of rows, oldest first
    derived_products,       \* table derived_products: sequence of rows, oldest first
    competitive_checks,     \* table competitive_checks: sequence of rows
    keyword_validations,    \* table keyword_validations: sequence of rows
    runs,                   \* per trigger: the stage run in progress
    nruns,                  \* number of stage runs started so far (bounded)
    input,                  \* the argument a pure function is applied to
    output                  \* what it returned

routerVars == <<now, ai_api_keys, exhaustedProviderCache, cost_tracking,
                calls, ncalls, lastQuotaError>>

groupVars == <<batch, groups, grouped>>

stageVars == <<signals, raw_data, opportunities, derived_products, competitive_checks,
              keyword_validations, runs, nruns>>

pureVars == <<input, output>>

\* what an action of the router, of the grouping, of a stage run, of a pure
\* function leaves alone
nonRouterVars == <<groupVars, stageVars, pureVars>>

nonGroupVars == <<routerVars, stageVars, pureVars>>

nonStageVars == <<ai_api_keys, exhaustedProviderCache, calls, ncalls, lastQuotaError,
                  groupVars, pureVars>>

nonPureVars == <<routerVars, groupVars, stageVars>>

vars == <<routerVars, groupVars, stageVars, pureVars>>

(***************************************************************************)
(* Part 1: text helpers                                                    *)
(***************************************************************************)
Min(a, b) == IF a < b THEN a ELSE b

Range(s) == {s[i] : i \in 1..Len(s)}

UpperChars == <<"A","B","C","D","E","F","G","H","I","J","K","L","M",
                "N","O","P","Q","R","S","T","U","V","W","X","Y","Z">>

LowerChars == <<"a","b","c","d","e","f","g","h","i","j","k","l","m",
                "n","o","p","q","r","s","t","u","v","w","x","y","z">>

\* String.prototype.toLowerCase on one character
LowerOf == [ch \in Range(UpperChars) |-> LowerChars[CHOOSE i \in 1..26 : UpperChars[i] = ch]]

ToLowerChar(ch) == IF ch \in DOMAIN LowerOf THEN LowerOf[ch] ELSE ch

\* String.prototype.toLowerCase
ToLowerCase(s) == [i \in 1..Len(s) |-> ToLowerChar(s[i])]

\* String.prototype.includes
Includes(s, sub) ==
    \E i \in 0..(Len(s) - Len(sub)) : SubSeq(s, i + 1, i + Len(sub)) = sub

(***************************************************************************)
(* Part 2: AI invocation router                                            *)
(***************************************************************************)
\* bound of the model: the number of router invocations
MaxCalls == 2

\* client.ts:15
QUOTA_CACHE_TTL_MS == 60000

\* client.ts:196, default of options.timeout
DEFAULT_TIMEOUT_MS == 60000

\* the two places runs are started from (worker/index.ts: cron.schedule and
\* POST /trigger/...); their router calls can be in flight at the same time
Callers == {"cron", "manual"}

KeyIds == {"k1", "k2", "k3"}

ModelFlash == <<"g","e","m","i","n","i","-","2",".","0","-","f","l","a","s","h">>

ModelGpt == <<"g","p","t","-","4","o">>

\* client.ts:278, allowed_models?.[0] || 'gemini-2.0-flash'
DefaultModel == ModelFlash

\* the contents of ai_api_keys the model starts from: three keys of three
\* (provider, model) pairs, three keys of which two share a pair, and a pool
\* without an active key
KeyRow(provider, models, active, errors, requests) ==
    [provider |-> provider, allowed_models |-> models, is_active |-> active,
     error_count |-> errors, total_requests |-> requests,
     last_error_message |-> <<>>]

PoolOverlap ==
    [k1 |-> KeyRow("google", <<ModelFlash>>, TRUE, 0, 0),
     k2 |-> KeyRow("openai", <<ModelGpt>>, TRUE, 1, 1),
     k3 |-> KeyRow("proxy", <<ModelGpt>>, FALSE, 0, 0)]

KeyPools ==
    { [k1 |-> KeyRow("google", <<ModelFlash>>, TRUE, 0, 2),
       k2 |-> KeyRow("openai", <<ModelGpt>>, TRUE, 1, 2),
       k3 |-> KeyRow("proxy", <<ModelGpt, ModelFlash>>, TRUE, 2, 2)],
      [k1 |-> KeyRow("google", <<ModelFlash>>, TRUE, 0, 0),
       k2 |-> KeyRow("openai", <<ModelGpt>>, TRUE, 0, 0),
       k3 |-> KeyRow("google", <<>>, TRUE, 2, 3)],
      [k1 |-> KeyRow("google", <<ModelFlash>>, FALSE, 0, 0),
       k2 |-> KeyRow("openai", <<ModelGpt>>, FALSE, 0, 0),
       k3 |-> KeyRow("proxy", <<ModelGpt>>, FALSE, 0, 0)] }

MsgQuota == <<"Q","u","o","t","a"," ","e","x","c","e","e","d","e","d">>

MsgTimeout == <<"T","i","m","e","o","u","t">>

MsgOther == <<"B","a","d"," ","g","a","t","e","w","a","y">>

\* the message of a relay that has no channel left for the model: the five
\* CJK characters of client.ts:23, one code point per element
MsgNoChannel == <<"U+65E0","U+53EF","U+7528","U+6E20","U+9053">>

\* isQuotaExceededError, client.ts:17-24 (the last signature is the five CJK
\* characters of client.ts:23, one code point per element)
QuotaSignatures ==
    { <<"q","u","o","t","a"," ","e","x","c","e","e","d","e","d">>,
      <<"r","a","t","e"," ","l","i","m","i","t">>,
      <<"r","e","s","o","u","r","c","e"," ","e","x","h","a","u","s","t","e","d">>,
      <<"t","o","o"," ","m","a","n","y"," ","r","e","q","u","e","s","t","s">>,
      <<"U+65E0","U+53EF","U+7528","U+6E20","U+9053">> }

isQuotaExceededError(message) ==
    LET msg == ToLowerCase(message)
    IN  \E sig \in QuotaSignatures : Includes(msg, sig)

\* the cache key `${provider}:${model}`
PairKey(provider, model) == <<provider, model>>

\* a cooldown that never runs out
isProviderExhaustedForGood(cache, pk, t) ==
    /\ pk \in DOMAIN cache
    /\ cache[pk] # 0

\* isProviderExhausted, client.ts:26-35: the answer ...
isProviderExhausted(cache, pk, t) ==
    /\ pk \in DOMAIN cache
    /\ cache[pk] # 0
    /\ ~(t > cache[pk])

\* ... and the cache after the call (an expired entry is deleted)
CacheAfterCheck(cache, pk, t) ==
    IF pk \in DOMAIN cache /\ cache[pk] # 0 /\ t > cache[pk]
    THEN [q \in (DOMAIN cache) \ {pk} |-> cache[q]]
    ELSE cache

\* markProviderExhausted, client.ts:37-39
markProviderExhausted(cache, pk, t) ==
    [q \in (DOMAIN cache) \cup {pk} |->
        IF q = pk THEN t + QUOTA_CACHE_TTL_MS ELSE cache[q]]

\* loadAllKeys without its .order('error_count') clause
loadAllKeysUnordered(tbl) ==
    LET act == {k \in KeyIds : tbl[k].is_active}
        n   == Cardinality(act)
    IN  { s \in [1..n -> act] : \A i, j \in 1..n : i # j => s[i] # s[j] }

\* loadAllKeys, client.ts:264-280: the active keys ordered by error_count
\* ascending (rows with equal error_count come in any order)
loadAllKeys(tbl) ==
    LET act == {k \in KeyIds : tbl[k].is_active}
        n   == Cardinality(act)
    IN  { s \in [1..n -> act] :
            /\ \A i, j \in 1..n : i # j => s[i] # s[j]
            /\ \A i, j \in 1..n : i < j => tbl[s[i]].error_count <= tbl[s[j]].error_count }

\* model: k.allowed_models?.[0] || 'gemini-2.0-flash', client.ts:278
KeyModel(row) ==
    IF Len(row.allowed_models) > 0 THEN row.allowed_models[1] ELSE DefaultModel

KeyPair(tbl, k) == PairKey(tbl[k].provider, KeyModel(tbl[k]))

PairKeys == {KeyPair(pool, k) : pool \in KeyPools, k \in KeyIds}

\* the head of the for loop of aiGenerateText, client.ts:204-205, run from
\* position i until a candidate that is not in cooldown is found (idx is then
\* its position) or the list is exhausted (idx = Len(list) + 1)
\* a loop that drops the cooldown of a pair when it passes over it
RECURSIVE NextCandidateForgetting(_, _, _, _, _)
NextCandidateForgetting(tbl, list, i, cache, t) ==
    IF i > Len(list) THEN [idx |-> i, cache |-> cache]
    ELSE LET pk == KeyPair(tbl, list[i])
         IN  IF isProviderExhausted(cache, pk, t)
             THEN NextCandidateForgetting(tbl, list, i + 1,
                                          [q \in (DOMAIN cache) \ {pk} |-> cache[q]], t)
             ELSE [idx |-> i, cache |-> CacheAfterCheck(cache, pk, t)]

RECURSIVE NextCandidate(_, _, _, _, _)
NextCandidate(tbl, list, i, cache, t) ==
    IF i > Len(list) THEN [idx |-> i, cache |-> cache]
    ELSE LET pk == KeyPair(tbl, list[i])
         IN  IF isProviderExhausted(cache, pk, t)
             THEN NextCandidate(tbl, list, i + 1, cache, t)
             ELSE [idx |-> i, cache |-> CacheAfterCheck(cache, pk, t)]

\* the statements of aiGenerateText that can throw, and those of them that
\* the try block of client.ts:207-218 encloses
ThrowSites == {"generateText", "timeout"}

\* the try block with the Promise.race timeout left outside
InTryWithoutTimeout(site) == site \in {"createModelInstance", "generateText",
                                       "reportKeySuccess", "trackCost"}

InTry(site) == site \in {"createModelInstance", "generateText", "timeout",
                         "reportKeySuccess", "trackCost"}

(***************************************************************************)
(* Cost ledger: trackCost and isDailyBudgetExceeded (client.ts:282-355)    *)
(***************************************************************************)
\* config/index.ts:31-34, per token, in units of 0.25 micro-dollar
HaikuInputRate == 1

HaikuOutputRate == 5

SonnetInputRate == 12

SonnetOutputRate == 60

\* config/index.ts:13, DAILY_BUDGET_LIMIT default 5 USD, same unit
DailyBudgetLimit == 20000000

DAY_MS == 86400000

\* new Date().toISOString().split('T')[0], as a day number
DateOf(t) == t \div DAY_MS

\* client.ts:301-309
CostOf(model, tokensInput, tokensOutput) ==
    LET modelLower == ToLowerCase(model)
    IN  IF \/ Includes(modelLower, <<"h","a","i","k","u">>)
           \/ Includes(modelLower, <<"f","l","a","s","h">>)
           \/ Includes(modelLower, <<"m","i","n","i">>)
        THEN tokensInput * HaikuInputRate + tokensOutput * HaikuOutputRate
        ELSE tokensInput * SonnetInputRate + tokensOutput * SonnetOutputRate

\* the select of trackCost, client.ts:312-318: the positions of the rows of
\* (date, agent_type, llm_model)
CostRowsOf(tbl, date, agentType, model) ==
    { i \in 1..Len(tbl) : /\ tbl[i].date = date
                          /\ tbl[i].agent_type = agentType
                          /\ tbl[i].llm_model = model }

\* .maybeSingle(): the row position when exactly one row matches, else 0 (null)
MaybeSingle(S) == IF Cardinality(S) = 1 THEN CHOOSE i \in S : TRUE ELSE 0

\* a write that takes the cost of the call off the row
TrackCostWriteCredit(tbl, existing, read, date, agentType, model, tokensInput, tokensOutput) ==
    LET costUsd == CostOf(model, tokensInput, tokensOutput)
    IN  IF existing # 0
        THEN [tbl EXCEPT ![existing] =
                 [@ EXCEPT !.api_calls = read.api_calls + 1,
                           !.tokens_input = read.tokens_input + tokensInput,
                           !.tokens_output = read.tokens_output + tokensOutput,
                           !.cost_usd = read.cost_usd - costUsd]]
        ELSE IF CostRowsOf(tbl, date, agentType, model) # {}
             THEN tbl
             ELSE Append(tbl, [date |-> date, agent_type |-> agentType, llm_model |-> model,
                               api_calls |-> 1, tokens_input |-> tokensInput,
                               tokens_output |-> tokensOutput, cost_usd |-> 0 - costUsd])

\* the write that puts the figures of the call in place of the sums
TrackCostWriteOverwrite(tbl, existing, read, date, agentType, model, tokensInput, tokensOutput) ==
    LET costUsd == CostOf(model, tokensInput, tokensOutput)
    IN  IF existing # 0
        THEN [tbl EXCEPT ![existing] =
                 [@ EXCEPT !.api_calls = 1,
                           !.tokens_input = tokensInput,
                           !.tokens_output = tokensOutput,
                           !.cost_usd = costUsd]]
        ELSE IF CostRowsOf(tbl, date, agentType, model) # {}
             THEN tbl
             ELSE Append(tbl, [date |-> date, agent_type |-> agentType, llm_model |-> model,
                               api_calls |-> 1, tokens_input |-> tokensInput,
                               tokens_output |-> tokensOutput, cost_usd |-> costUsd])

\* the write of trackCost, client.ts:320-337, given the row read before
\* (existing = 0 for none, else the position and the values read)
TrackCostWrite(tbl, existing, read, date, agentType, model, tokensInput, tokensOutput) ==
    LET costUsd == CostOf(model, tokensInput, tokensOutput)
    IN  IF existing # 0
        THEN [tbl EXCEPT ![existing] =
                 [@ EXCEPT !.api_calls = read.api_calls + 1,
                           !.tokens_input = read.tokens_input + tokensInput,
                           !.tokens_output = read.tokens_output + tokensOutput,
                           !.cost_usd = read.cost_usd + costUsd]]
        ELSE IF CostRowsOf(tbl, date, agentType, model) # {}
             THEN tbl    \* UNIQUE(date, agent_type, llm_model): the insert is refused
             ELSE Append(tbl, [date |-> date, agent_type |-> agentType, llm_model |-> model,
                               api_calls |-> 1, tokens_input |-> tokensInput,
                               tokens_output |-> tokensOutput, cost_usd |-> costUsd])

RECURSIVE SumCost(_, _, _)
SumCost(tbl, date, i) ==
    IF i > Len(tbl) THEN 0
    ELSE (IF tbl[i].date = date THEN tbl[i].cost_usd ELSE 0) + SumCost(tbl, date, i + 1)

\* the comparison written spent > limit
isDailyBudgetExceededStrict(tbl, t) ==
    LET spent == SumCost(tbl, DateOf(t), 1)
        limit == DailyBudgetLimit
    IN  [exceeded |-> spent > limit, spent |-> spent, limit |-> limit]

\* isDailyBudgetExceeded, client.ts:343-355
isDailyBudgetExceeded(tbl, t) ==
    LET spent == SumCost(tbl, DateOf(t), 1)
        limit == DailyBudgetLimit
    IN  [exceeded |-> spent >= limit, spent |-> spent, limit |-> limit]

(***************************************************************************)
(* aiGenerateJson: the text of a reply and its parse (client.ts:244-260)   *)
(***************************************************************************)
WhiteSpace == {" ", "\n"}

Digits == {"0", "1", "2", "3", "4", "5", "6", "7", "8", "9"}

RECURSIVE SkipWs(_, _)
SkipWs(s, i) == IF i <= Len(s) /\ s[i] \in WhiteSpace THEN SkipWs(s, i + 1) ELSE i

\* first position >= i at which sub occurs in s, 0 if none
IndexOfFrom(s, sub, i) ==
    LET P == {p \in i..(Len(s) - Len(sub) + 1) : SubSeq(s, p, p + Len(sub) - 1) = sub}
    IN  IF P = {} THEN 0 ELSE CHOOSE p \in P : \A q \in P : p <= q

\* last position at which sub occurs in s, 0 if none
LastIndexOf(s, sub) ==
    LET P == {p \in 1..(Len(s) - Len(sub) + 1) : SubSeq(s, p, p + Len(sub) - 1) = sub}
    IN  IF P = {} THEN 0 ELSE CHOOSE p \in P : \A q \in P : p >= q

RECURSIVE SkipDigits(_, _)
SkipDigits(s, i) == IF i <= Len(s) /\ s[i] \in Digits THEN SkipDigits(s, i + 1) ELSE i

\* JSON.parse for the JSON built from objects, strings without escapes,
\* unsigned integers and null: JsonValue(s, i) is the position after the value
\* that starts at i, or 0 when there is none (SyntaxError)
RECURSIVE JsonValue(_, _), JsonMembers(_, _)
JsonValue(s, i) ==
    IF i > Len(s) THEN 0
    ELSE IF s[i] = "{" THEN
        LET j == SkipWs(s, i + 1)
        IN  IF j <= Len(s) /\ s[j] = "}" THEN j + 1 ELSE JsonMembers(s, j)
    ELSE IF s[i] = "\"" THEN
        LET q == IndexOfFrom(s, <<"\"">>, i + 1)
        IN  IF q = 0 THEN 0 ELSE q + 1
    ELSE IF s[i] \in Digits THEN SkipDigits(s, i)
    ELSE IF i + 3 <= Len(s) /\ SubSeq(s, i, i + 3) = <<"n","u","l","l">> THEN i + 4
    ELSE 0

JsonMembers(s, i) ==
    IF i > Len(s) \/ s[i] # "\"" THEN 0
    ELSE LET q == IndexOfFrom(s, <<"\"">>, i + 1)
             c == IF q = 0 THEN 0 ELSE SkipWs(s, q + 1)
             v == IF c = 0 \/ c > Len(s) \/ s[c] # ":" THEN 0
                  ELSE JsonValue(s, SkipWs(s, c + 1))
             e == IF v = 0 THEN 0 ELSE SkipWs(s, v)
         IN  IF e = 0 \/ e > Len(s) THEN 0
             ELSE IF s[e] = "}" THEN e + 1
             ELSE IF s[e] = "," THEN JsonMembers(s, SkipWs(s, e + 1))
             ELSE 0

\* TRUE when JSON.parse(s) returns, FALSE when it throws
JsonParses(s) ==
    LET e == JsonValue(s, SkipWs(s, 1))
    IN  e # 0 /\ SkipWs(s, e) = Len(s) + 1

\* three backquote characters (the element "BQ" stands for one backquote)
Fence == <<"BQ", "BQ", "BQ">>

\* the two text.match calls of client.ts:249 (an opening fence line, a lazy
\* group, a closing fence line): the captured group of the leftmost match, or
\* "none"
FenceMatch(text, opener) ==
    LET o == IndexOfFrom(text, opener, 1)
        c == IF o = 0 THEN 0 ELSE IndexOfFrom(text, <<"\n">> \o Fence, o + Len(opener))
    IN  IF c = 0 THEN "none" ELSE SubSeq(text, o + Len(opener), c - 1)

\* the jsonText.match of client.ts:252 (greedy): from the first "{" to the
\* last "}"
BraceMatch(jsonText) ==
    LET a == IndexOfFrom(jsonText, <<"{">>, 1)
        b == LastIndexOf(jsonText, <<"}">>)
    IN  IF a = 0 \/ b < a THEN "none" ELSE SubSeq(jsonText, a, b)

NullResult == [kind |-> "null", src |-> <<>>]

NoResult == [kind |-> "none", src |-> <<>>]

\* the body of aiGenerateJson after the text has arrived, client.ts:245-260;
\* a parsed value is represented by the text it was parsed from
ParseReply(text) ==
    IF text = <<>> THEN NullResult
    ELSE LET m1 == FenceMatch(text, Fence \o <<"j","s","o","n","\n">>)
             m2 == FenceMatch(text, Fence \o <<"\n">>)
             jsonText == IF m1 # "none" THEN m1 ELSE IF m2 # "none" THEN m2 ELSE text
             jsonMatch == BraceMatch(jsonText)
             arg == IF jsonMatch # "none" THEN jsonMatch ELSE jsonText
         IN  IF JsonParses(arg) THEN [kind |-> "json", src |-> arg]
             ELSE NullResult

TextEmpty == <<>>

TextObject == <<"{", "\"", "a", "\"", ":", "1", "}">>

TextFenced == Fence \o <<"j","s","o","n","\n">> \o TextObject \o <<"\n">> \o Fence

TextJunk == <<"S", "o", "r", "r", "y", " ", "{">>

(***************************************************************************)
(* aiGenerateJson / aiGenerateText as a process per caller.  One action is *)
(* the code between two awaits; the Supabase client resolves with          *)
(* {data, error} and never rejects, so only generateText, the timeout and  *)
(* JSON.parse throw.  The timestamp columns (last_used_at, last_error_at)  *)
(* are not kept.                                                           *)
(***************************************************************************)
AgentTypes == {"analyst"}

\* the instants the clock takes: the start, the end of a cooldown or timeout
\* that began at the start, and the millisecond after
Times == {0, QUOTA_CACHE_TTL_MS, QUOTA_CACHE_TTL_MS + 1}

NoUsage == [promptTokens |-> 0, completionTokens |-> 0]

\* result.usage of a reply (absent counts are 0, client.ts:215)
Usages == {NoUsage, [promptTokens |-> 1000, completionTokens |-> 500]}

\* result.text of a reply
Texts == {TextEmpty, TextObject, TextFenced, TextJunk}

ErrorMessages == {MsgQuota, MsgOther, MsgNoChannel}

NoRead == [error_count |-> 0, total_requests |-> 0, api_calls |-> 0,
           tokens_input |-> 0, tokens_output |-> 0, cost_usd |-> 0]

IdleCall ==
    [pc |-> "idle", agentType |-> "none", list |-> <<>>, idx |-> 0, startedAt |-> 0,
     errMsg |-> <<>>, read |-> NoRead,
     tcDate |-> 0, tcExisting |-> 0, result |-> NoResult,
     \* history of the invocation
     loadedErr |-> <<>>, attempts |-> <<>>, nSuccess |-> 0, nReturn |-> 0, threw |-> FALSE,
     text |-> <<>>, usage |-> NoUsage, freeAtStart |-> {}]

\* the invocation returns r to its caller
Returned(cr, r) ==
    [cr EXCEPT !.pc = "done", !.result = r, !.nReturn = @ + 1,
               !.errMsg = <<>>, !.read = NoRead,
               !.tcDate = 0, !.tcExisting = 0, !.startedAt = 0]

\* an exception leaves the invocation
Thrown(cr) ==
    [cr EXCEPT !.pc = "done", !.threw = TRUE,
               !.errMsg = <<>>, !.read = NoRead,
               !.tcDate = 0, !.tcExisting = 0, !.startedAt = 0]

\* the for loop of aiGenerateText entered at position i (client.ts:204-229):
\* either an attempt on the next candidate out of cooldown starts, or the
\* list is exhausted and null is returned
LoopFrom(cr, i, cache, t) ==
    LET nc == NextCandidate(ai_api_keys, cr.list, i, cache, t)
    IN  IF nc.idx > Len(cr.list)
        THEN [call |-> Returned([cr EXCEPT !.idx = nc.idx], NullResult), cache |-> nc.cache]
        ELSE [call |-> [cr EXCEPT !.pc = "inflight", !.idx = nc.idx, !.startedAt = t,
                                  !.errMsg = <<>>, !.read = NoRead,
                                  !.attempts = Append(@, cr.list[nc.idx])],
              cache |-> nc.cache]

\* time passes
Tick ==
    /\ \E t \in Times : t > now /\ now' = t
    /\ UNCHANGED <<ai_api_keys, exhaustedProviderCache, cost_tracking, calls, ncalls,
                   lastQuotaError>>
    /\ UNCHANGED nonRouterVars

\* aiGenerateJson(prompt, {agentType}) is called: aiGenerateText issues the
\* query of loadAllKeys (client.ts:198)
Invoke(c) ==
    /\ calls[c].pc = "idle"
    /\ ncalls < MaxCalls
    /\ \E a \in AgentTypes :
          calls' = [calls EXCEPT ![c] = [IdleCall EXCEPT !.pc = "load", !.agentType = a]]
    /\ ncalls' = ncalls + 1
    /\ UNCHANGED <<now, ai_api_keys, exhaustedProviderCache, cost_tracking,
                   lastQuotaError>>
    /\ UNCHANGED nonRouterVars

\* the keys arrive (client.ts:198-205): no key, null; else the loop starts
LoadKeys(c) ==
    /\ calls[c].pc = "load"
    /\ \E list \in loadAllKeys(ai_api_keys) :
          LET cr == [calls[c] EXCEPT !.list = list,
                        !.loadedErr = [i \in 1..Len(list) |-> ai_api_keys[list[i]].error_count],
                        !.freeAtStart =
                            {k \in Range(list) :
                                ~isProviderExhausted(exhaustedProviderCache,
                                                     KeyPair(ai_api_keys, k), now)}]
          IN  IF Len(list) = 0
              THEN /\ calls' = [calls EXCEPT ![c] = Returned(cr, NullResult)]
                   /\ UNCHANGED exhaustedProviderCache
              ELSE LET lf == LoopFrom(cr, 1, exhaustedProviderCache, now)
                   IN  /\ calls' = [calls EXCEPT ![c] = lf.call]
                       /\ exhaustedProviderCache' = lf.cache
    /\ UNCHANGED <<now, ai_api_keys, cost_tracking, ncalls, lastQuotaError>>
    /\ UNCHANGED nonRouterVars

\* errorMessage.substring(0, 500), client.ts:162-164
MaxErrorMessage == 500

\* a reportKeyError that stores an empty message
substringOfNothing(s, n) == <<>>

substring(s, n) == SubSeq(s, 1, Min(Len(s), n))

\* the attempt in flight fails: generateText rejects, or the timeout of
\* Promise.race fires (client.ts:209-212, 218-220); the catch block issues the
\* select of reportKeyError
AttemptFails(c) ==
    /\ calls[c].pc = "inflight"
    /\ \E site \in ThrowSites :
          LET cr  == calls[c]
              k   == cr.list[cr.idx]
              pk  == KeyPair(ai_api_keys, k)
          IN  /\ IF site = "timeout" THEN now - cr.startedAt >= DEFAULT_TIMEOUT_MS
                                     ELSE now - cr.startedAt <= DEFAULT_TIMEOUT_MS
              /\ \E m \in (IF site = "timeout" THEN {MsgTimeout} ELSE ErrorMessages) :
                    /\ calls' = [calls EXCEPT ![c] =
                          IF InTry(site) THEN [cr EXCEPT !.pc = "errRead", !.errMsg = m]
                          ELSE Thrown(cr)]
                    /\ lastQuotaError' =
                          IF isQuotaExceededError(m)
                          THEN [lastQuotaError EXCEPT ![pk] = now]
                          ELSE lastQuotaError
    /\ UNCHANGED <<now, ai_api_keys, exhaustedProviderCache, cost_tracking, ncalls>>
    /\ UNCHANGED nonRouterVars

\* the select of reportKeyError returns (client.ts:155)
ReportErrorRead(c) ==
    /\ calls[c].pc = "errRead"
    /\ LET k == calls[c].list[calls[c].idx]
       IN  calls' = [calls EXCEPT ![c] = [@ EXCEPT !.pc = "errWrite",
                  !.read = [NoRead EXCEPT !.error_count = ai_api_keys[k].error_count,
                                          !.total_requests = ai_api_keys[k].total_requests]]]
    /\ UNCHANGED <<now, ai_api_keys, exhaustedProviderCache, cost_tracking, ncalls,
                   lastQuotaError>>
    /\ UNCHANGED nonRouterVars

\* the update of reportKeyError (client.ts:156-166), then the rest of the
\* catch block (client.ts:221-223) and the next round of the loop
ReportErrorWrite(c) ==
    /\ calls[c].pc = "errWrite"
    /\ LET cr    == calls[c]
           k     == cr.list[cr.idx]
           pk    == KeyPair(ai_api_keys, k)
           cache == IF isQuotaExceededError(cr.errMsg)
                    THEN markProviderExhausted(exhaustedProviderCache, pk, now)
                    ELSE exhaustedProviderCache
           lf    == LoopFrom(cr, cr.idx + 1, cache, now)
       IN  /\ ai_api_keys' = [ai_api_keys EXCEPT ![k] =
                 [@ EXCEPT !.error_count = cr.read.error_count + 1,
                           !.total_requests = cr.read.total_requests + 1,
                           !.last_error_message =
                               IF cr.errMsg # <<>>
                               THEN substring(cr.errMsg, MaxErrorMessage)
                               ELSE @]]
           /\ calls' = [calls EXCEPT ![c] = lf.call]
           /\ exhaustedProviderCache' = lf.cache
    /\ UNCHANGED <<now, cost_tracking, ncalls, lastQuotaError>>
    /\ UNCHANGED nonRouterVars

\* generateText resolves before the timeout (client.ts:209-214); the select
\* of reportKeySuccess is issued.  result.usage and result.text are not read
\* before client.ts:216-217, and the model draws them there.
AttemptSucceeds(c) ==
    /\ calls[c].pc = "inflight"
    /\ now - calls[c].startedAt <= DEFAULT_TIMEOUT_MS
    /\ calls' = [calls EXCEPT ![c] = [@ EXCEPT !.pc = "okRead", !.nSuccess = @ + 1]]
    /\ UNCHANGED <<now, ai_api_keys, exhaustedProviderCache, cost_tracking, ncalls,
                   lastQuotaError>>
    /\ UNCHANGED nonRouterVars

\* the select of reportKeySuccess returns (client.ts:170)
ReportSuccessRead(c) ==
    /\ calls[c].pc = "okRead"
    /\ LET k == calls[c].list[calls[c].idx]
       IN  calls' = [calls EXCEPT ![c] = [@ EXCEPT !.pc = "okWrite",
                  !.read = [NoRead EXCEPT !.total_requests = ai_api_keys[k].total_requests]]]
    /\ UNCHANGED <<now, ai_api_keys, exhaustedProviderCache, cost_tracking, ncalls,
                   lastQuotaError>>
    /\ UNCHANGED nonRouterVars

\* the update of reportKeySuccess (client.ts:171-176); trackCost starts, takes
\* the date and issues its select (client.ts:298-318)
ReportSuccessWrite(c) ==
    /\ calls[c].pc = "okWrite"
    /\ LET cr == calls[c]
           k  == cr.list[cr.idx]
       IN  /\ ai_api_keys' = [ai_api_keys EXCEPT ![k] =
                 [@ EXCEPT !.total_requests = cr.read.total_requests + 1]]
           /\ calls' = [calls EXCEPT ![c] = [@ EXCEPT !.pc = "costRead", !.read = NoRead,
                                                     !.tcDate = DateOf(now)]]
    /\ UNCHANGED <<now, exhaustedProviderCache, cost_tracking, ncalls, lastQuotaError>>
    /\ UNCHANGED nonRouterVars

\* the select of trackCost returns (client.ts:312-318)
TrackCostRead(c) ==
    /\ calls[c].pc = "costRead"
    /\ LET cr    == calls[c]
           model == KeyModel(ai_api_keys[cr.list[cr.idx]])
           e     == MaybeSingle(CostRowsOf(cost_tracking, cr.tcDate, cr.agentType, model))
       IN  calls' = [calls EXCEPT ![c] = [@ EXCEPT !.pc = "costWrite", !.tcExisting = e,
                  !.read = IF e = 0 THEN NoRead
                           ELSE [NoRead EXCEPT !.api_calls = cost_tracking[e].api_calls,
                                               !.tokens_input = cost_tracking[e].tokens_input,
                                               !.tokens_output = cost_tracking[e].tokens_output,
                                               !.cost_usd = cost_tracking[e].cost_usd]]]
    /\ UNCHANGED <<now, ai_api_keys, exhaustedProviderCache, cost_tracking, ncalls,
                   lastQuotaError>>
    /\ UNCHANGED nonRouterVars

\* the update or insert of trackCost (client.ts:320-337); aiGenerateText
\* returns result.text (client.ts:217) and aiGenerateJson parses it
TrackCostWriteAndReturn(c) ==
    /\ calls[c].pc = "costWrite"
    /\ LET cr    == calls[c]
           model == KeyModel(ai_api_keys[cr.list[cr.idx]])
       IN  \E usage \in Usages, text \in Texts :
              /\ cost_tracking' = TrackCostWrite(cost_tracking, cr.tcExisting, cr.read,
                                      cr.tcDate, cr.agentType, model,
                                      usage.promptTokens, usage.completionTokens)
              /\ calls' = [calls EXCEPT ![c] =
                              Returned([cr EXCEPT !.text = text, !.usage = usage],
                                       ParseReply(text))]
    /\ UNCHANGED <<now, ai_api_keys, exhaustedProviderCache, ncalls, lastQuotaError>>
    /\ UNCHANGED nonRouterVars

\* the caller takes the result; the invocation is over
Finish(c) ==
    /\ calls[c].pc = "done"
    /\ calls' = [calls EXCEPT ![c] = IdleCall]
    /\ UNCHANGED <<now, ai_api_keys, exhaustedProviderCache, cost_tracking, ncalls,
                   lastQuotaError>>
    /\ UNCHANGED nonRouterVars

(***************************************************************************)
(* Part 3: topic grouping of signals (src/src/agents/analyst/index.ts)     *)
(***************************************************************************)
\* the code points of the range U+4E00..U+9FFF that occur in the model
CJKChars == {"U+65E0", "U+53EF", "U+7528", "U+6E20", "U+9053"}

\* STOP_WORDS of extractTopicWords, analyst/index.ts:398-410
STOP_WORDS ==
    { <<"t", "h", "e">>, <<"a">>, <<"a", "n">>, <<"i", "s">>, <<"a", "r", "e">>, <<"w", "a", "s">>,
      <<"w", "e", "r", "e">>, <<"b", "e">>, <<"b", "e", "e", "n">>, <<"b", "e", "i", "n", "g">>,
      <<"h", "a", "v", "e">>, <<"h", "a", "s">>, <<"h", "a", "d">>, <<"d", "o">>,
      <<"d", "o", "e", "s">>, <<"d", "i", "d">>, <<"w", "i", "l", "l">>,
      <<"w", "o", "u", "l", "d">>, <<"c", "o", "u", "l", "d">>, <<"s", "h", "o", "u", "l", "d">>,
      <<"m", "a", "y">>, <<"m", "i", "g", "h", "t">>, <<"c", "a", "n">>,
      <<"s", "h", "a", "l", "l">>, <<"t", "o">>, <<"o", "f">>, <<"i", "n">>, <<"f", "o", "r">>,
      <<"o", "n">>, <<"w", "i", "t", "h">>, <<"a", "t">>, <<"b", "y">>, <<"f", "r", "o", "m">>,
      <<"a", "s">>, <<"i", "n", "t", "o">>, <<"a", "b", "o", "u", "t">>,
      <<"t", "h", "r", "o", "u", "g", "h">>, <<"h", "o", "w">>, <<"w", "h", "a", "t">>,
      <<"w", "h", "i", "c", "h">>, <<"w", "h", "o">>, <<"w", "h", "e", "n">>,
      <<"w", "h", "e", "r", "e">>, <<"w", "h", "y">>, <<"a", "l", "l">>, <<"e", "a", "c", "h">>,
      <<"e", "v", "e", "r", "y">>, <<"b", "o", "t", "h">>, <<"f", "e", "w">>,
      <<"m", "o", "r", "e">>, <<"m", "o", "s", "t">>, <<"o", "t", "h", "e", "r">>,
      <<"s", "o", "m", "e">>, <<"s", "u", "c", "h">>, <<"n", "o">>, <<"n", "o", "t">>,
      <<"o", "n", "l", "y">>, <<"o", "w", "n">>, <<"s", "a", "m", "e">>, <<"s", "o">>,
      <<"t", "h", "a", "n">>, <<"t", "o", "o">>, <<"v", "e", "r", "y">>, <<"j", "u", "s", "t">>,
      <<"a", "n", "d">>, <<"b", "u", "t">>, <<"o", "r">>, <<"n", "o", "r">>, <<"i", "f">>,
      <<"t", "h", "e", "n">>, <<"e", "l", "s", "e">>, <<"t", "h", "i", "s">>,
      <<"t", "h", "a", "t">>, <<"t", "h", "e", "s", "e">>, <<"t", "h", "o", "s", "e">>,
      <<"i", "t">>, <<"i", "t", "s">>, <<"y", "o", "u", "r">>, <<"o", "u", "r">>, <<"m", "y">>,
      <<"h", "i", "s">>, <<"h", "e", "r">>, <<"s", "t", "e", "p">>, <<"g", "u", "i", "d", "e">>,
      <<"t", "u", "t", "o", "r", "i", "a", "l">>, <<"c", "o", "m", "p", "l", "e", "t", "e">>,
      <<"f", "u", "l", "l">>, <<"n", "e", "w">>, <<"b", "e", "s", "t">>, <<"t", "o", "p">>,
      <<"t", "i", "p", "s">>, <<"t", "r", "i", "c", "k", "s">>,
      <<"u", "l", "t", "i", "m", "a", "t", "e">>, <<"2", "0", "2", "4">>, <<"2", "0", "2", "5">>,
      <<"2", "0", "2", "6">> }

\* .replace(/[^a-z0-9\s CJK]/g, ' '), analyst/index.ts:413
KeepChars == Range(LowerChars) \cup Digits \cup WhiteSpace \cup CJKChars

ReplaceNonWordChars(s) ==
    [i \in 1..Len(s) |-> IF s[i] \in KeepChars THEN s[i] ELSE " "]

\* .split(/\s+/): the pieces between runs of white space, as a set (the
\* pieces feed a Set; empty pieces do not pass the length filter)
RECURSIVE SplitWhiteSpace(_, _, _)
SplitWhiteSpace(s, i, piece) ==
    IF i > Len(s) THEN {piece}
    ELSE IF s[i] \in WhiteSpace
         THEN {piece} \cup SplitWhiteSpace(s, i + 1, <<>>)
         ELSE SplitWhiteSpace(s, i + 1, Append(piece, s[i]))

\* extractTopicWords, analyst/index.ts:397-417
extractTopicWords(text) ==
    { w \in SplitWhiteSpace(ReplaceNonWordChars(ToLowerCase(text)), 1, <<>>) :
        Len(w) > 2 /\ w \notin STOP_WORDS }

\* topicSimilarity, analyst/index.ts:422-430: the quotient intersection/union
\* as numerator and denominator (0/1 when a set is empty)
topicSimilarity(a, b) ==
    IF a = {} \/ b = {} THEN [num |-> 0, den |-> 1]
    ELSE [num |-> Cardinality(a \cap b), den |-> Cardinality(a \cup b)]

\* sim >= p/100 for a quotient sim, in whole numbers (the division of two
\* small integers and the decimal literal round to the same double when the
\* quotient equals the literal)
SimAtLeast(sim, p) == 100 * sim.num >= p * sim.den

\* title + ' ' + (description || ''), analyst/index.ts:442, 446
SignalText(s) == s.title \o <<" ">> \o s.description

\* .split('?')[0]
BeforeQuery(url) ==
    LET q == IndexOfFrom(url, <<"?">>, 1)
    IN  IF q = 0 THEN url ELSE SubSeq(url, 1, q - 1)

\* .replace(/\/+$/, '')
RECURSIVE StripTrailingSlashes(_)
StripTrailingSlashes(url) ==
    IF Len(url) > 0 /\ url[Len(url)] = "/"
    THEN StripTrailingSlashes(SubSeq(url, 1, Len(url) - 1))
    ELSE url

\* analyst/index.ts:449-450
NormalizeUrl(url) == ToLowerCase(StripTrailingSlashes(BeforeQuery(url)))

\* the comparison without the test for empty URLs
SameUrlOrBothEmpty(si, sj) ==
    NormalizeUrl(si.source_url) = NormalizeUrl(sj.source_url)

\* analyst/index.ts:451: urlI && urlJ && urlI === urlJ
SameUrl(si, sj) ==
    LET urlI == NormalizeUrl(si.source_url)
        urlJ == NormalizeUrl(sj.source_url)
    IN  urlI # <<>> /\ urlJ # <<>> /\ urlI = urlJ

\* the condition of analyst/index.ts:453 for the sigs at i and j
JoinsGroup(sigs, i, j) ==
    \/ SimAtLeast(topicSimilarity(extractTopicWords(SignalText(sigs[i])),
                                  extractTopicWords(SignalText(sigs[j]))), 40)
    \/ SameUrl(sigs[i], sigs[j])

\* the inner loop with every member compared to the member added last
RECURSIVE GroupMembersChained(_, _, _, _, _)
GroupMembersChained(sigs, i, j, assigned, members) ==
    IF j > Len(sigs) THEN members
    ELSE IF j \notin assigned /\ JoinsGroup(sigs, members[Len(members)], j)
         THEN GroupMembersChained(sigs, i, j + 1, assigned \cup {j}, Append(members, j))
         ELSE GroupMembersChained(sigs, i, j + 1, assigned, members)

\* the inner loop without the test of assigned
RECURSIVE GroupMembersUnchecked(_, _, _, _, _)
GroupMembersUnchecked(sigs, i, j, assigned, members) ==
    IF j > Len(sigs) THEN members
    ELSE IF JoinsGroup(sigs, i, j)
         THEN GroupMembersUnchecked(sigs, i, j + 1, assigned \cup {j}, Append(members, j))
         ELSE GroupMembersUnchecked(sigs, i, j + 1, assigned, members)

\* the inner loop of groupSignalsByTopic, analyst/index.ts:444-457, from
\* position j: the positions of the group opened by i
RECURSIVE GroupMembers(_, _, _, _, _)
GroupMembers(sigs, i, j, assigned, members) ==
    IF j > Len(sigs) THEN members
    ELSE IF j \notin assigned /\ JoinsGroup(sigs, i, j)
         THEN GroupMembers(sigs, i, j + 1, assigned \cup {j}, Append(members, j))
         ELSE GroupMembers(sigs, i, j + 1, assigned, members)

\* the outer loop, analyst/index.ts:439-459, from position i
RECURSIVE GroupFrom(_, _, _, _)
GroupFrom(sigs, i, assigned, acc) ==
    IF i > Len(sigs) THEN acc
    ELSE IF i \in assigned THEN GroupFrom(sigs, i + 1, assigned, acc)
    ELSE LET members == GroupMembers(sigs, i, i + 1, assigned \cup {i}, <<i>>)
         IN  GroupFrom(sigs, i + 1, assigned \cup Range(members),
                       Append(acc, [k \in 1..Len(members) |-> sigs[members[k]]]))

\* groupSignalsByTopic, analyst/index.ts:435-462
groupSignalsByTopic(sigs) == GroupFrom(sigs, 1, {}, <<>>)

\* the sigs the batches are drawn from
SignalPool ==
    {
      [id |-> "s1", title |-> <<"S", "e", "e", "d", "a", "n", "c", "e", " ", "v", "i", "d", "e", "o", " ", "e", "d", "i", "t", "o", "r">>,
       description |-> <<>>,
       source_url |-> <<"h", "t", "t", "p", "s", ":", "/", "/", "x", ".", "i", "o", "/", "a">>,
       stars |-> 5, comments_count |-> 0],
      [id |-> "s2", title |-> <<"V", "i", "d", "e", "o", " ", "e", "d", "i", "t", "o", "r", " ", "p", "l", "u", "g", "i", "n">>,
       description |-> <<"A", " ", "p", "l", "u", "g", "i", "n", ".">>,
       source_url |-> <<"h", "t", "t", "p", "s", ":", "/", "/", "y", ".", "i", "o", "/", "b">>,
       stars |-> 9, comments_count |-> 1],
      [id |-> "s3", title |-> <<"E", "d", "i", "t", "o", "r", " ", "p", "l", "u", "g", "i", "n", " ", "m", "a", "r", "k", "e", "t">>,
       description |-> <<>>,
       source_url |-> <<"h", "t", "t", "p", "s", ":", "/", "/", "z", ".", "i", "o", "/", "c">>,
       stars |-> 1, comments_count |-> 0],
      [id |-> "s4", title |-> <<"T", "h", "e", " ", "b", "e", "s", "t", " ", "g", "u", "i", "d", "e">>,
       description |-> <<>>,
       source_url |-> <<"H", "T", "T", "P", "S", ":", "/", "/", "x", ".", "i", "o", "/", "a", "/", "?", "r", "e", "f", "=", "1">>,
       stars |-> 0, comments_count |-> 0],
      [id |-> "s5", title |-> <<"R", "u", "s", "t", " ", "c", "o", "m", "p", "i", "l", "e", "r">>,
       description |-> <<>>,
       source_url |-> <<>>,
       stars |-> 2, comments_count |-> 0],
      [id |-> "s6", title |-> <<"Z", "i", "g", " ", "t", "o", "o", "l", "c", "h", "a", "i", "n">>,
       description |-> <<>>,
       source_url |-> <<>>,
       stars |-> 3, comments_count |-> 0],
      [id |-> "s7", title |-> <<"S", "e", "e", "d", "a", "n", "c", "e", " ", "v", "i", "d", "e", "o", " ", "t", "o", "o", "l", "s", " ", "o", "n", "l", "i", "n", "e">>,
       description |-> <<>>,
       source_url |-> <<"h", "t", "t", "p", "s", ":", "/", "/", "w", ".", "i", "o", "/", "d">>,
       stars |-> 7, comments_count |-> 7] }

\* bound of the model: the number of signals of a batch
MaxBatch == 3

Batches ==
    { s \in UNION { [1..n -> SignalPool] : n \in 0..MaxBatch } :
        \A i, j \in 1..Len(s) : i # j => s[i].id # s[j].id }

InitGroup ==
    /\ batch \in Batches
    /\ groups = <<>>
    /\ grouped = FALSE

\* no batch is being grouped
InitNoGroup ==
    /\ batch = <<>>
    /\ groups = <<>>
    /\ grouped = TRUE

\* groupSignalsByTopic(batch) is called
GroupBatch ==
    /\ ~grouped
    /\ groups' = groupSignalsByTopic(batch)
    /\ grouped' = TRUE
    /\ UNCHANGED batch
    /\ UNCHANGED nonGroupVars

(***************************************************************************)
(* Part 4: the stage runs (Scout, Analyst, Deriver, Competitive Check,     *)
(* Keyword Validation) on the shared store.  One action is one database    *)
(* operation or one Router invocation, together with the statements that   *)
(* lead up to the next one.                                                *)
(* The store applies the constraints of src/src/db/migrations; a write it  *)
(* refuses leaves the table as it was, and the code does not look at the   *)
(* error of an update.  A Router invocation made by a stage is taken as a  *)
(* whole: its result, and the row of the cost ledger it writes.            *)
(***************************************************************************)
Triggers == {"cron", "manual"}

Stages == {"scout", "analyst", "deriver", "competitive", "keyword"}

\* a null or undefined value of a text field
Null == <<"NULL">>

OrEmpty(x) == IF x = Null THEN <<>> ELSE x

\* a dimension missing from score_breakdown
Missing == 0 - 1

\* x || 0
OrZero(x) == IF x = Missing THEN 0 ELSE x

\* slugify, utils/helpers.ts:28-34
SlugChars == Range(LowerChars) \cup Digits

\* .replace(/[^a-z0-9]+/g, '-'): every run of other characters becomes one "-"
RECURSIVE ReplaceRuns(_, _)
ReplaceRuns(s, i) ==
    IF i > Len(s) THEN <<>>
    ELSE IF s[i] \in SlugChars THEN <<s[i]>> \o ReplaceRuns(s, i + 1)
    ELSE IF i > 1 /\ s[i - 1] \notin SlugChars THEN ReplaceRuns(s, i + 1)
    ELSE <<"-">> \o ReplaceRuns(s, i + 1)

\* .replace(/^-|-$/g, '')
TrimDashes(s) ==
    LET a == IF Len(s) > 0 /\ s[1] = "-" THEN 2 ELSE 1
        b == IF Len(s) >= a /\ s[Len(s)] = "-" THEN Len(s) - 1 ELSE Len(s)
    IN  SubSeq(s, a, b)

SLUG_MAX == 80

slugify(text) ==
    LET t == TrimDashes(ReplaceRuns(ToLowerCase(text), 1))
    IN  SubSeq(t, 1, Min(Len(t), SLUG_MAX))

(***************************************************************************)
(* signals                                                                 *)
(***************************************************************************)
\* the signals of the store, most recently created first; "none" is a
\* signal no scraper has saved yet
SignalIds == <<"s1", "s2", "s5">>

SignalRow(id) == CHOOSE s \in SignalPool : s.id = id

\* status CHECK (status IN ('raw', 'analyzed', 'dismissed')),
\* migrations/004_chinese_content.sql:47
SignalStatuses == {"raw", "analyzed", "dismissed"}

\* raw_data without a dismiss_reason
NoRawData == [dismiss_reason |-> [kind |-> "none"]]

\* the template literal of analyst/index.ts:580, by the id it names
MergedWith(id) == [kind |-> "merged", with |-> id]

\* result?.novelty_reason || 'Not emerging', part_009:384
NotEmerging == [kind |-> "novelty"]

\* update({status, raw_data: {...raw_data, dismiss_reason}}).eq('id', id):
\* the row takes the reason when the store takes the update
UpdateDismissReason(tbl, data, id, status, reason) ==
    IF tbl[id] = "none" \/ status \notin SignalStatuses THEN data
    ELSE [data EXCEPT ![id] = [@ EXCEPT !.dismiss_reason = reason]]

\* a store whose signals.status takes any value
UpdateSignalStatusUnchecked(tbl, id, status) ==
    IF tbl[id] = "none" THEN tbl ELSE [tbl EXCEPT ![id] = status]

\* update({status}).eq('id', id) on signals
UpdateSignalStatus(tbl, id, status) ==
    IF tbl[id] = "none" \/ status \notin SignalStatuses THEN tbl
    ELSE [tbl EXCEPT ![id] = status]

\* select('*').eq('status', st).order('created_at', desc).limit(20)
SIGNAL_LIMIT == 20

SelectSignals(tbl, st) ==
    LET ids == SelectSeq(SignalIds, LAMBDA id : tbl[id] = st)
    IN  [i \in 1..Min(Len(ids), SIGNAL_LIMIT) |-> SignalRow(ids[i])]

\* mergeSignalGroup, analyst/index.ts:467-480: the group sorted by traction,
\* highest first (Array.prototype.sort is stable); the representative is the
\* first, and carries the ids of all
Traction(s) == s.stars + s.comments_count

RECURSIVE SortByTraction(_)
SortByTraction(group) ==
    IF Len(group) <= 1 THEN group
    ELSE LET best == CHOOSE i \in 1..Len(group) :
                        /\ \A k \in 1..Len(group) : Traction(group[k]) <= Traction(group[i])
                        /\ \A k \in 1..(i - 1) : Traction(group[k]) < Traction(group[i])
             rest == [k \in 1..(Len(group) - 1) |->
                         IF k < best THEN group[k] ELSE group[k + 1]]
         IN  <<group[best]>> \o SortByTraction(rest)

mergeSignalGroup(group) ==
    LET sorted == SortByTraction(group)
    IN  [id |-> sorted[1].id,
         ids |-> [k \in 1..Len(sorted) |-> sorted[k].id],
         dismiss |-> [k \in 1..(Len(sorted) - 1) |-> sorted[k + 1].id]]

RECURSIVE Flatten(_)
Flatten(seqs) == IF Len(seqs) = 0 THEN <<>> ELSE seqs[1] \o Flatten(Tail(seqs))

(***************************************************************************)
(* opportunities                                                           *)
(***************************************************************************)
\* SCORE_WEIGHTS, analyst/index.ts:350-358, in hundredths
WeightDevelopmentSpeed == 15

WeightMonetization == 15

WeightSeoPotential == 15

WeightBusinessViability == 20

WeightTimeSensitivity == 10

WeightLongtailValue == 15

WeightNovelty == 10

Breakdown(ds, mo, seo, bv, ts, lt, nv) ==
    [development_speed |-> ds, monetization |-> mo, seo_potential |-> seo,
     business_viability |-> bv, time_sensitivity |-> ts, longtail_value |-> lt,
     novelty |-> nv]

\* the sum with business_viability weighted 0.25
calculateWeightedScoreOverweight(b) ==
      OrZero(b.development_speed) * WeightDevelopmentSpeed
    + OrZero(b.monetization) * WeightMonetization
    + OrZero(b.seo_potential) * WeightSeoPotential
    + OrZero(b.business_viability) * (WeightBusinessViability + 5)
    + OrZero(b.time_sensitivity) * WeightTimeSensitivity
    + OrZero(b.longtail_value) * WeightLongtailValue
    + OrZero(b.novelty) * WeightNovelty

\* calculateWeightedScore, analyst/index.ts:360-364, in hundredths of a point
calculateWeightedScore(b) ==
      OrZero(b.development_speed) * WeightDevelopmentSpeed
    + OrZero(b.monetization) * WeightMonetization
    + OrZero(b.seo_potential) * WeightSeoPotential
    + OrZero(b.business_viability) * WeightBusinessViability
    + OrZero(b.time_sensitivity) * WeightTimeSensitivity
    + OrZero(b.longtail_value) * WeightLongtailValue
    + OrZero(b.novelty) * WeightNovelty

\* The sum is computed in double precision, one term after the other in the
\* order of SCORE_WEIGHTS.  For the breakdowns of the model it equals the
\* exact sum, except for this one: 27*0.15 + 85*0.15 + 18*0.15 + 49*0.2 +
\* 51*0.1 + 58*0.15 + 69*0.1 comes out as 49.99999999999999, below the exact
\* sum 50.
BreakdownRoundedLow == Breakdown(27, 85, 18, 49, 51, 58, 69)

RoundsLow(b) == b = BreakdownRoundedLow

\* analyst/index.ts:687, score >= 50, on the double
SCORE_THRESHOLD == 5000

ScoreAtLeast50(score, low) == score > SCORE_THRESHOLD \/ (score = SCORE_THRESHOLD /\ ~low)

\* the same comparison written score > 50
StatusForScoreStrict(score, low) ==
    IF score > SCORE_THRESHOLD THEN "evaluated" ELSE "rejected"

\* analyst/index.ts:687
StatusForScore(score, low) ==
    IF ScoreAtLeast50(score, low) THEN "evaluated" ELSE "rejected"

\* score.toFixed(1), in tenths (the sums of the model are no odd multiples of
\* 0.05, where the digit would depend on the rounding of the double)
ToFixed1(score) == (score + 5) \div 10

\* analyst/index.ts:688: `Score too low: ${score.toFixed(1)}` or null
DecisionReason(score, low) ==
    IF ~ScoreAtLeast50(score, low)
    THEN [text |-> "Score too low: ", tenths |-> ToFixed1(score)]
    ELSE [text |-> "null", tenths |-> 0]

\* analyst/index.ts:621, 622: the viability gate
VIABILITY_MIN == 30

GateRejects(b) == OrZero(b.business_viability) < VIABILITY_MIN

\* analyst/index.ts:593-595, 632: the topic words of an opportunity
OppWords(title, target_keyword) ==
    extractTopicWords(title \o <<" ">> \o OrEmpty(target_keyword))

\* analyst/index.ts:633, the threshold of the semantic dedup, in percent
DEDUP_PERCENT == 35

\* existingTopicSets.find(e => topicSimilarity(newWords, e.words) >= 0.35)
IsTopicDuplicate(newWords, existing) ==
    \E k \in 1..Len(existing) :
        SimAtLeast(topicSimilarity(newWords, existing[k]), DEDUP_PERCENT)

\* the run that forgets what it inserted
PushNothing(existing, words) == existing

\* existingTopicSets.push(...), analyst/index.ts:707
PushExisting(existing, words) == Append(existing, words)

\* .order('created_at', desc).limit(100), analyst/index.ts:587-591
OPP_LOAD_LIMIT == 100

LoadExistingOpps(tbl) ==
    LET n == Min(Len(tbl), OPP_LOAD_LIMIT)
    IN  [k \in 1..n |-> OppWords(tbl[Len(tbl) + 1 - k].title,
                                 tbl[Len(tbl) + 1 - k].target_keyword)]

\* a table without the UNIQUE constraint on slug
OppInsertAcceptedAnySlug(tbl, row) == row.target_keyword # Null

\* insert into opportunities: slug is UNIQUE, target_keyword is NOT NULL
\* (migrations/004_chinese_content.sql:60-67)
OppInsertAccepted(tbl, row) ==
    /\ \A k \in 1..Len(tbl) : tbl[k].slug # row.slug
    /\ row.target_keyword # Null

\* the assessments evaluateSignal can come back with
Assessment(title, kw, slug, b) ==
    [title |-> title, target_keyword |-> kw, slug |-> slug, score_breakdown |-> b]

AssessGood ==
    Assessment(<<"S", "e", "e", "d", "a", "n", "c", "e", " ", "v", "i", "d", "e", "o", " ", "e", "d", "i", "t", "o", "r">>, <<"s", "e", "e", "d", "a", "n", "c", "e", " ", "e", "d", "i", "t", "o", "r">>, <<>>,
               Breakdown(80, 80, 80, 80, 80, 80, 80))

AssessSimilarLow ==
    Assessment(<<"S", "e", "e", "d", "a", "n", "c", "e", " ", "e", "d", "i", "t", "o", "r", " ", "o", "n", "l", "i", "n", "e">>, <<"s", "e", "e", "d", "a", "n", "c", "e", " ", "o", "n", "l", "i", "n", "e">>, <<>>,
               Breakdown(40, 40, 40, 40, 40, 40, 40))

AssessLowViability ==
    Assessment(<<"R", "u", "s", "t", " ", "c", "o", "m", "p", "i", "l", "e", "r", " ", "t", "i", "p", "s">>, <<"r", "u", "s", "t", " ", "c", "o", "m", "p", "i", "l", "e", "r">>, <<>>,
               Breakdown(90, 90, 90, 20, 90, 90, 90))

AssessNoViability ==
    Assessment(<<"Z", "i", "g", " ", "t", "o", "o", "l", "c", "h", "a", "i", "n">>, <<"z", "i", "g", " ", "t", "o", "o", "l", "c", "h", "a", "i", "n">>, <<>>,
               Breakdown(90, 90, 90, Missing, 90, 90, 90))

AssessRoundedLow ==
    Assessment(<<"D", "e", "n", "o", " ", "r", "u", "n", "t", "i", "m", "e">>, <<"d", "e", "n", "o", " ", "r", "u", "n", "t", "i", "m", "e">>, <<"d", "e", "n", "o">>,
               BreakdownRoundedLow)

AssessGateEdge ==
    Assessment(<<"Z", "i", "g", " ", "b", "u", "i", "l", "d", " ", "c", "a", "c", "h", "e">>, <<"z", "i", "g", " ", "c", "a", "c", "h", "e">>, <<>>,
               Breakdown(55, 55, 55, 30, 55, 55, 55))

AssessNoKeyword ==
    Assessment(<<"B", "u", "n", " ", "b", "u", "n", "d", "l", "e", "r">>, Null, <<>>,
               Breakdown(80, 80, 80, 80, 80, 80, 80))

\* a reply without score_breakdown
NoBreakdown == [kind |-> "undefined"]

AssessNoBreakdown ==
    Assessment(<<"H", "t", "m", "x", " ", "s", "t", "a", "r", "t", "e", "r", " ", "k", "i", "t">>, <<"h", "t", "m", "x", " ", "s", "t", "a", "r", "t", "e", "r">>, <<"h", "t", "m", "x", "-", "s", "t", "a", "r", "t", "e", "r", "-", "k", "i", "t">>, NoBreakdown)

Assessments == {AssessGood, AssessSimilarLow, AssessLowViability, AssessNoViability,
                AssessRoundedLow, AssessGateEdge, AssessNoKeyword, AssessNoBreakdown}

OppRow(a, score, low, ids, by) ==
    [title |-> a.title, target_keyword |-> a.target_keyword,
     slug |-> IF a.slug # <<>> THEN a.slug ELSE slugify(a.title),
     score |-> score, low |-> low,
     business_viability |-> a.score_breakdown.business_viability,
     status |-> StatusForScore(score, low),
     decision_reason |-> DecisionReason(score, low),
     signal_ids |-> ids, by |-> by]

\* an opportunity an earlier run stored
StoredOpp == OppRow(AssessGood, calculateWeightedScore(AssessGood.score_breakdown), FALSE,
                    <<"s0">>, "earlier")

(***************************************************************************)
(* the cost of a Router invocation made by a stage                         *)
(***************************************************************************)
\* the model and the token counts of the reply a stage is charged for:
\* 1,000,000 prompt and 100,000 completion tokens at the Sonnet rates, 4.50 USD
StageUsage == [promptTokens |-> 1000000, completionTokens |-> 100000]

\* trackCost, client.ts:292-338, select and write together
ChargeCall(tbl, t, agentType) ==
    LET date == DateOf(t)
        e    == MaybeSingle(CostRowsOf(tbl, date, agentType, ModelGpt))
        read == IF e = 0 THEN NoRead
                ELSE [NoRead EXCEPT !.api_calls = tbl[e].api_calls,
                                    !.tokens_input = tbl[e].tokens_input,
                                    !.tokens_output = tbl[e].tokens_output,
                                    !.cost_usd = tbl[e].cost_usd]
    IN  TrackCostWrite(tbl, e, read, date, agentType, ModelGpt,
                       StageUsage.promptTokens, StageUsage.completionTokens)

\* a ledger row of today with the given cost
SpentRow(cost) ==
    [date |-> 0, agent_type |-> "scout", llm_model |-> ModelFlash, api_calls |-> 1,
     tokens_input |-> 0, tokens_output |-> 0, cost_usd |-> cost]

\* 5.01 USD against the limit of 5.00
SpentAboveLimit == DailyBudgetLimit + 40000

\* the ledgers a run can find: nothing spent, the limit reached exactly, 5.01
\* USD spent against the limit of 5.00
Ledgers == {<<>>, <<SpentRow(DailyBudgetLimit)>>, <<SpentRow(SpentAboveLimit)>>}

(***************************************************************************)
(* a stage run                                                             *)
(***************************************************************************)
NoBudget == [exceeded |-> FALSE, spent |-> 0, limit |-> 0]

NoCur == [kind |-> "none"]

IdleRun ==
    [stage |-> "none", pc |-> "idle", items |-> <<>>, idx |-> 0, sub |-> <<>>, j |-> 0,
     existing |-> <<>>, cur |-> NoCur,
     \* history of the run
     lastBudget |-> NoBudget, sawExceeded |-> FALSE, aiCalls |-> 0, aiAfterExceeded |-> 0,
     loadedCount |-> 0, gated |-> {}, dupSkipped |-> 0, assessed |-> {}, nullReplies |-> 0,
     checked |-> [tbl |-> <<>>, at |-> 0], last |-> NoCur]

\* the run has read {exceeded, spent, limit}
ObserveBudget(rec, b) ==
    [rec EXCEPT !.lastBudget = b, !.sawExceeded = @ \/ b.exceeded]

\* the run invokes the Router
NoteAiCall(rec) ==
    [rec EXCEPT !.aiCalls = @ + 1,
                !.aiAfterExceeded = @ + (IF rec.sawExceeded THEN 1 ELSE 0)]

\* the statements after the item loop: the Analyst marks the signals of all
\* of evalSignals (analyst/index.ts:721-727); the other stages return
LoopEnd(rec) ==
    IF rec.stage = "analyst"
    THEN LET ids == Flatten([k \in 1..Len(rec.items) |-> rec.items[k].ids])
         IN  [rec EXCEPT !.pc = "finalMark", !.sub = ids, !.j = 1, !.cur = NoCur]
    ELSE [rec EXCEPT !.pc = "done", !.cur = NoCur]

\* the next round of the item loop; the loop of runKeywordValidation has no
\* budget check (keyword-validator/index.ts:155-228)
AfterItem(rec) ==
    IF rec.idx + 1 > Len(rec.items)
    THEN LoopEnd([rec EXCEPT !.idx = @ + 1])
    ELSE [rec EXCEPT !.idx = @ + 1, !.cur = NoCur, !.sub = <<>>, !.j = 0,
                     !.pc = IF rec.stage = "keyword" THEN "lookup" ELSE "itemBudget"]

\* an exception leaves the stage function: the run is over, with the rest
\* of its items not processed
Throw(rec) == [rec EXCEPT !.pc = "thrown", !.cur = NoCur, !.sub = <<>>, !.j = 0]

\* bound of the model: the number of stage runs started
MaxRuns == 2

\* a run of one of the stages is triggered (worker/index.ts:41-93, 147-205)
StartRun(r, stages) ==
    /\ runs[r].pc = "idle"
    /\ nruns < MaxRuns
    /\ \E st \in stages :
          runs' = [runs EXCEPT ![r] = [IdleRun EXCEPT !.stage = st, !.pc = "entry"]]
    /\ nruns' = nruns + 1
    /\ UNCHANGED <<keyword_validations, now, cost_tracking, signals, raw_data, opportunities, derived_products,
                   competitive_checks>>
    /\ UNCHANGED nonStageVars

\* the budget check at the entry of runScout, runAnalyst, runDeriver,
\* runCompetitiveCheck and runKeywordValidation (part_009:411-415,
\* analyst/index.ts:546-550, part_009:656-660, part_010:214-218,
\* keyword-validator/index.ts:110-114)
EntryBudget(r) ==
    /\ runs[r].pc = "entry"
    /\ LET b   == isDailyBudgetExceeded(cost_tracking, now)
           rec == ObserveBudget(runs[r], b)
       IN  runs' = [runs EXCEPT ![r] =
               IF b.exceeded THEN [rec EXCEPT !.pc = "done"]
               ELSE [rec EXCEPT !.pc = IF rec.stage = "scout" THEN "scrape" ELSE "select"]]
    /\ UNCHANGED <<keyword_validations, now, cost_tracking, signals, raw_data, opportunities, derived_products,
                   competitive_checks, nruns>>
    /\ UNCHANGED nonStageVars

\* the budget check before an item (part_009:352-356, analyst/index.ts:604-608,
\* part_009:700-704, part_010:253-257)
ItemBudget(r) ==
    /\ runs[r].pc = "itemBudget"
    /\ LET b   == isDailyBudgetExceeded(cost_tracking, now)
           rec == ObserveBudget(runs[r], b)
       IN  runs' = [runs EXCEPT ![r] =
               IF b.exceeded THEN LoopEnd(rec) ELSE [rec EXCEPT !.pc = "ai"]]
    /\ UNCHANGED <<keyword_validations, now, cost_tracking, signals, raw_data, opportunities, derived_products,
                   competitive_checks, nruns>>
    /\ UNCHANGED nonStageVars

\* the run returns, or the handler of the trigger catches what it threw
\* (worker/index.ts:41-93, 147-205)
FinishRun(r) ==
    /\ runs[r].pc \in {"done", "thrown"}
    /\ runs' = [runs EXCEPT ![r] = IdleRun]
    /\ UNCHANGED <<keyword_validations, now, cost_tracking, signals, raw_data, opportunities, derived_products,
                   competitive_checks, nruns>>
    /\ UNCHANGED nonStageVars

(***************************************************************************)
(* runAnalyst, analyst/index.ts:543-733                                    *)
(***************************************************************************)
\* evalSignals = signals.slice(0, 10), analyst/index.ts:597
EVAL_LIMIT == 10

\* the select of the analyzed signals, the grouping and the merge
\* (analyst/index.ts:553-571); the representatives are kept in items, the
\* ids of the other members of the groups in sub
AnalystSelect(r) ==
    /\ runs[r].stage = "analyst" /\ runs[r].pc = "select"
    /\ LET rawSignals == SelectSignals(signals, "analyzed")
           grps       == groupSignalsByTopic(rawSignals)
           merged     == [k \in 1..Len(grps) |-> mergeSignalGroup(grps[k])]
           dismiss    == Flatten([k \in 1..Len(merged) |-> merged[k].dismiss])
       IN  runs' = [runs EXCEPT ![r] =
               IF Len(rawSignals) = 0 THEN [@ EXCEPT !.pc = "done"]
               ELSE [@ EXCEPT !.items = merged, !.sub = dismiss, !.j = 1,
                              !.pc = IF Len(dismiss) > 0 THEN "dismiss" ELSE "loadOpps"]]
    /\ UNCHANGED <<keyword_validations, now, cost_tracking, signals, raw_data, opportunities, derived_products,
                   competitive_checks, nruns>>
    /\ UNCHANGED nonStageVars

\* merged.id for a member of a group: the representative of the group
PrimaryOf(items, id) ==
    items[CHOOSE k \in 1..Len(items) : id \in Range(items[k].ids)].id

\* one update of analyst/index.ts:576-581: a merged signal is dismissed,
\* with the reason that names the representative
AnalystDismiss(r) ==
    /\ runs[r].stage = "analyst" /\ runs[r].pc = "dismiss"
    /\ LET id == runs[r].sub[runs[r].j]
       IN  /\ signals' = UpdateSignalStatus(signals, id, "dismissed")
           /\ raw_data' = UpdateDismissReason(signals, raw_data, id, "dismissed",
                                              MergedWith(PrimaryOf(runs[r].items, id)))
    /\ runs' = [runs EXCEPT ![r] =
          IF @.j + 1 > Len(@.sub) THEN [@ EXCEPT !.pc = "loadOpps", !.sub = <<>>, !.j = 0]
          ELSE [@ EXCEPT !.j = @ + 1]]
    /\ UNCHANGED <<keyword_validations, now, cost_tracking, opportunities, derived_products,
                   competitive_checks, nruns>>
    /\ UNCHANGED nonStageVars

\* the select of the existing opportunities (analyst/index.ts:586-598)
AnalystLoadOpps(r) ==
    /\ runs[r].stage = "analyst" /\ runs[r].pc = "loadOpps"
    /\ LET ex == LoadExistingOpps(opportunities)
       IN  runs' = [runs EXCEPT ![r] =
               [@ EXCEPT !.existing = ex, !.loadedCount = Len(opportunities),
                         !.items = SubSeq(@, 1, Min(Len(@), EVAL_LIMIT)),
                         !.idx = 1, !.pc = "itemBudget"]]
    /\ UNCHANGED <<keyword_validations, now, cost_tracking, signals, raw_data, opportunities, derived_products,
                   competitive_checks, nruns>>
    /\ UNCHANGED nonStageVars

\* evaluateSignal returns (analyst/index.ts:610-640) an assessment of the
\* pool or none: the viability gate, the semantic dedup, or on to the slug
\* check; calculateWeightedScore throws on a reply without score_breakdown
\* (analyst/index.ts:618, 362)
AnalystEvaluate(r, pool) ==
    /\ runs[r].stage = "analyst" /\ runs[r].pc = "ai"
    /\ \E charged \in BOOLEAN, a \in pool \cup {NoCur} :
          /\ a # NoCur => charged
          /\ cost_tracking' = IF charged THEN ChargeCall(cost_tracking, now, "analyst")
                              ELSE cost_tracking
          /\ LET sig   == runs[r].items[runs[r].idx]
                 rec   == [NoteAiCall(runs[r]) EXCEPT
                              !.assessed = IF a = NoCur THEN @ ELSE @ \cup {sig.id}]
                 words == OppWords(a.title, a.target_keyword)
             IN  runs' = [runs EXCEPT ![r] =
                     IF a = NoCur THEN AfterItem(rec)
                     ELSE IF a.score_breakdown = NoBreakdown THEN Throw(rec)
                     ELSE IF GateRejects(a.score_breakdown)
                          THEN [rec EXCEPT !.cur = a, !.pc = "gateMark"]
                     ELSE IF IsTopicDuplicate(words, rec.existing)
                          THEN [rec EXCEPT !.cur = a, !.pc = "dupMark"]
                     ELSE [rec EXCEPT !.cur = a, !.pc = "slugSelect"]]
    /\ UNCHANGED <<keyword_validations, now, signals, raw_data, opportunities, derived_products, competitive_checks, nruns>>
    /\ UNCHANGED nonStageVars

\* the update of analyst/index.ts:626-627 (gate) or 636-637 (dedup): the
\* signal is to become 'evaluated'
AnalystMarkEvaluated(r) ==
    /\ runs[r].stage = "analyst" /\ runs[r].pc \in {"gateMark", "dupMark"}
    /\ LET rec == runs[r]
           id  == rec.items[rec.idx].id
       IN  /\ signals' = UpdateSignalStatus(signals, id, "evaluated")
           /\ raw_data' = raw_data
           /\ runs' = [runs EXCEPT ![r] =
                 AfterItem(IF rec.pc = "gateMark"
                           THEN [rec EXCEPT !.gated = @ \cup {id}]
                           ELSE [rec EXCEPT !.dupSkipped = @ + 1])]
    /\ UNCHANGED <<keyword_validations, now, cost_tracking, opportunities, derived_products,
                   competitive_checks, nruns>>
    /\ UNCHANGED nonStageVars

\* the select by slug (analyst/index.ts:642-652)
AnalystSlugSelect(r) ==
    /\ runs[r].stage = "analyst" /\ runs[r].pc = "slugSelect"
    /\ LET rec  == runs[r]
           slug == IF rec.cur.slug # <<>> THEN rec.cur.slug ELSE slugify(rec.cur.title)
           hit  == MaybeSingle({k \in 1..Len(opportunities) : opportunities[k].slug = slug})
       IN  runs' = [runs EXCEPT ![r] =
               IF hit # 0 THEN AfterItem(rec) ELSE [rec EXCEPT !.pc = "insert"]]
    /\ UNCHANGED <<keyword_validations, now, cost_tracking, signals, raw_data, opportunities, derived_products,
                   competitive_checks, nruns>>
    /\ UNCHANGED nonStageVars

\* the insert (analyst/index.ts:654-716) and, when the store took the row,
\* the push to existingTopicSets
AnalystInsert(r) ==
    /\ runs[r].stage = "analyst" /\ runs[r].pc = "insert"
    /\ LET rec   == runs[r]
           a     == rec.cur
           score == calculateWeightedScore(a.score_breakdown)
           row   == OppRow(a, score, RoundsLow(a.score_breakdown),
                           rec.items[rec.idx].ids, r)
           words == OppWords(a.title, a.target_keyword)
       IN  IF OppInsertAccepted(opportunities, row)
           THEN /\ opportunities' = Append(opportunities, row)
                /\ runs' = [runs EXCEPT ![r] =
                      AfterItem([rec EXCEPT !.existing = PushExisting(@, words)])]
           ELSE /\ opportunities' = opportunities
                /\ runs' = [runs EXCEPT ![r] = AfterItem(rec)]
    /\ UNCHANGED <<keyword_validations, now, cost_tracking, signals, raw_data, derived_products, competitive_checks, nruns>>
    /\ UNCHANGED nonStageVars

\* the loop over ids on a store whose signals.status takes any value
RECURSIVE UpdateSignalsStatusUnchecked(_, _, _)
UpdateSignalsStatusUnchecked(tbl, ids, status) ==
    IF Len(ids) = 0 THEN tbl
    ELSE UpdateSignalsStatusUnchecked(UpdateSignalStatusUnchecked(tbl, ids[1], status),
                                      Tail(ids), status)

\* the updates of a loop over ids, one after the other
RECURSIVE UpdateSignalsStatus(_, _, _)
UpdateSignalsStatus(tbl, ids, status) ==
    IF Len(ids) = 0 THEN tbl
    ELSE UpdateSignalsStatus(UpdateSignalStatus(tbl, ids[1], status), Tail(ids), status)

\* the closing loop (analyst/index.ts:721-727): every signal of evalSignals,
\* with the ones merged into it, is to become 'evaluated'
AnalystFinalMark(r) ==
    /\ runs[r].stage = "analyst" /\ runs[r].pc = "finalMark"
    /\ signals' = UpdateSignalsStatus(signals, runs[r].sub, "evaluated")
    /\ raw_data' = raw_data
    /\ runs' = [runs EXCEPT ![r] = [@ EXCEPT !.pc = "done", !.sub = <<>>, !.j = 0]]
    /\ UNCHANGED <<keyword_validations, now, cost_tracking, opportunities, derived_products,
                   competitive_checks, nruns>>
    /\ UNCHANGED nonStageVars

(***************************************************************************)
(* runDeriver, part_009:650-785                                            *)
(***************************************************************************)
\* config.deriver.minScore, in hundredths of a point
DERIVER_MIN_SCORE == 5500

\* config.deriver.maxPerRun
DERIVER_MAX_PER_RUN == 10

\* config.deriver.minDerivativeScore
MIN_DERIVATIVE_SCORE == 40

\* 30 * 24 * 60 * 60 seconds
THIRTY_DAYS_S == 2592000

\* derivative_type CHECK, migrations/002_pipeline_extensions.sql:26-29
DerivativeTypes ==
    {"tutorial", "comparison", "directory", "tool", "prompt_guide", "template_gallery",
     "cheatsheet", "aggregator", "calculator", "landing_page"}

\* the positions of tbl that satisfy keep, highest score first; rows of equal
\* score stay in the order of the table
ByScoreDesc(tbl, ks) ==
    [i \in 1..Cardinality(ks) |->
        CHOOSE k \in ks :
            Cardinality({m \in ks : \/ tbl[m].score > tbl[k].score
                                    \/ (tbl[m].score = tbl[k].score /\ m < k)}) = i - 1]

FirstN(s, n) == SubSeq(s, 1, Min(Len(s), n))

\* part_009:663-669: the ids of the opportunities to derive from
SelectOppsToDerive(tbl) ==
    FirstN(ByScoreDesc(tbl, {k \in 1..Len(tbl) :
                                /\ tbl[k].status = "evaluated"
                                /\ tbl[k].score >= DERIVER_MIN_SCORE
                                /\ ~(tbl[k].score = DERIVER_MIN_SCORE /\ tbl[k].low)}),
           DERIVER_MAX_PER_RUN)

\* a count that finds no derivative
CountDerivedOfNone(tbl, oppId) == 0

\* select count, part_009:679-682
CountDerived(tbl, oppId) == Cardinality({k \in 1..Len(tbl) : tbl[k].opportunity_id = oppId})

\* (d.target_keywords || []).map(k => k.toLowerCase())
LowerKeywords(kw) ==
    LET a == IF kw = Null THEN <<>> ELSE kw
    IN  [i \in 1..Len(a) |-> ToLowerCase(a[i])]

\* newKw.filter(k => existingKw.some(ek => ek.includes(k) || k.includes(ek))).length
OverlapCount(newKw, existingKw) ==
    Cardinality({i \in 1..Len(newKw) :
        \E m \in 1..Len(existingKw) :
            Includes(existingKw[m], newKw[i]) \/ Includes(newKw[i], existingKw[m])})

\* Math.ceil(n * 0.5)
CeilHalf(n) == (n + 1) \div 2

\* the comparison written with > in place of >=
KeywordsOverlapStrict(keywords, existing) ==
    LET newKw == LowerKeywords(keywords)
    IN  OverlapCount(newKw, LowerKeywords(existing)) > CeilHalf(Len(newKw))

\* part_009:632-640
KeywordsOverlap(keywords, existing) ==
    LET newKw == LowerKeywords(keywords)
    IN  OverlapCount(newKw, LowerKeywords(existing)) >= CeilHalf(Len(newKw))

\* part_009:625-629: .gte('created_at', thirtyDaysAgo).not('status', 'eq',
\* 'rejected'); created_at is kept in whole seconds, t is in milliseconds
RecentDerivatives(tbl, t) ==
    {k \in 1..Len(tbl) :
        /\ tbl[k].created_at >= ((t + 999) \div 1000) - THIRTY_DAYS_S
        /\ tbl[k].status # "rejected"}

(***************************************************************************)
(* the enum normalizers, part_009:485-526                                  *)
(***************************************************************************)
\* String.prototype.trim
RECURSIVE TrimStart(_)
TrimStart(s) == IF Len(s) > 0 /\ s[1] \in WhiteSpace THEN TrimStart(Tail(s)) ELSE s

RECURSIVE TrimEnd(_)
TrimEnd(s) ==
    IF Len(s) > 0 /\ s[Len(s)] \in WhiteSpace THEN TrimEnd(SubSeq(s, 1, Len(s) - 1)) ELSE s

Trim(s) == TrimEnd(TrimStart(s))

VALID_BUILD_EFFORTS == <<<<"2", "h">>, <<"4", "h">>, <<"1", "d">>, <<"2", "d">>, <<"3", "d">>>>

VALID_COMPETITION_LEVELS == <<<<"l", "o", "w">>, <<"m", "e", "d", "i", "u", "m">>, <<"h", "i", "g", "h">>, <<"u", "n", "k", "n", "o", "w", "n">>>>

VALID_SEARCH_VOLUMES == <<<<"h", "i", "g", "h">>, <<"m", "e", "d", "i", "u", "m">>, <<"l", "o", "w">>, <<"u", "n", "k", "n", "o", "w", "n">>>>

VALID_PRODUCT_FORMS == <<<<"w", "e", "b", "s", "i", "t", "e">>, <<"m", "i", "n", "i", "_", "p", "r", "o", "g", "r", "a", "m">>, <<"b", "o", "t", "h">>>>

\* the normalizer that hands an unrecognized value through
normalizeBuildEffortUnchecked(val) ==
    IF val \in Range(VALID_BUILD_EFFORTS) THEN val
    ELSE LET v == Trim(ToLowerCase(val))
         IN  IF \/ Includes(v, <<"h", "o", "u", "r">>) \/ Includes(v, <<"2", "h">>)
                \/ v = <<"<", " ", "2", "h">> \/ v = <<"<", "2", "h">> THEN <<"2", "h">>
             ELSE IF Includes(v, <<"4", "h">>) \/ v = <<"h", "a", "l", "f", " ", "d", "a", "y">> \/ v = <<"h", "a", "l", "f", "-", "d", "a", "y">>
                  THEN <<"4", "h">>
             ELSE IF \/ v = <<"1", " ", "d", "a", "y">> \/ v = <<"1", "d", "a", "y">> \/ v = <<"1", "d">>
                     \/ v = <<"<", " ", "1", "d">> \/ v = <<"<", "1", "d">> THEN <<"1", "d">>
             ELSE IF v = <<"2", " ", "d", "a", "y", "s">> \/ v = <<"2", "d", "a", "y", "s">> \/ v = <<"2", "d">> THEN <<"2", "d">>
             ELSE IF \/ v = <<"3", " ", "d", "a", "y", "s">> \/ v = <<"3", "d", "a", "y", "s">> \/ v = <<"3", "d">>
                     \/ Includes(v, <<"w", "e", "e", "k">>) \/ Includes(v, <<"5", "d">>)
                     \/ Includes(v, <<"4", "d">>) THEN <<"3", "d">>
             ELSE val

\* part_009:490-500
normalizeBuildEffort(val) ==
    IF val \in Range(VALID_BUILD_EFFORTS) THEN val
    ELSE LET v == Trim(ToLowerCase(val))
         IN  IF \/ Includes(v, <<"h", "o", "u", "r">>) \/ Includes(v, <<"2", "h">>)
                \/ v = <<"<", " ", "2", "h">> \/ v = <<"<", "2", "h">> THEN <<"2", "h">>
             ELSE IF Includes(v, <<"4", "h">>) \/ v = <<"h", "a", "l", "f", " ", "d", "a", "y">> \/ v = <<"h", "a", "l", "f", "-", "d", "a", "y">>
                  THEN <<"4", "h">>
             ELSE IF \/ v = <<"1", " ", "d", "a", "y">> \/ v = <<"1", "d", "a", "y">> \/ v = <<"1", "d">>
                     \/ v = <<"<", " ", "1", "d">> \/ v = <<"<", "1", "d">> THEN <<"1", "d">>
             ELSE IF v = <<"2", " ", "d", "a", "y", "s">> \/ v = <<"2", "d", "a", "y", "s">> \/ v = <<"2", "d">> THEN <<"2", "d">>
             ELSE IF \/ v = <<"3", " ", "d", "a", "y", "s">> \/ v = <<"3", "d", "a", "y", "s">> \/ v = <<"3", "d">>
                     \/ Includes(v, <<"w", "e", "e", "k">>) \/ Includes(v, <<"5", "d">>)
                     \/ Includes(v, <<"4", "d">>) THEN <<"3", "d">>
             ELSE <<"1", "d">>

\* part_009:502-509
normalizeCompetitionLevel(val) ==
    IF val \in Range(VALID_COMPETITION_LEVELS) THEN val
    ELSE LET v == Trim(ToLowerCase(val))
         IN  IF Includes(v, <<"l", "o", "w">>) \/ v = <<"e", "a", "s", "y">> THEN <<"l", "o", "w">>
             ELSE IF Includes(v, <<"m", "e", "d">>) \/ v = <<"m", "o", "d", "e", "r", "a", "t", "e">> THEN <<"m", "e", "d", "i", "u", "m">>
             ELSE IF Includes(v, <<"h", "i", "g", "h">>) \/ v = <<"h", "a", "r", "d">> \/ v = <<"d", "i", "f", "f", "i", "c", "u", "l", "t">>
                  THEN <<"h", "i", "g", "h">>
             ELSE <<"u", "n", "k", "n", "o", "w", "n">>

\* part_009:511-518
normalizeSearchVolume(val) ==
    IF val \in Range(VALID_SEARCH_VOLUMES) THEN val
    ELSE LET v == Trim(ToLowerCase(val))
         IN  IF Includes(v, <<"h", "i", "g", "h">>) THEN <<"h", "i", "g", "h">>
             ELSE IF Includes(v, <<"m", "e", "d">>) THEN <<"m", "e", "d", "i", "u", "m">>
             ELSE IF Includes(v, <<"l", "o", "w">>) THEN <<"l", "o", "w">>
             ELSE <<"u", "n", "k", "n", "o", "w", "n">>

\* part_009:520-526
normalizeProductForm(val) ==
    IF val \in Range(VALID_PRODUCT_FORMS) THEN val
    ELSE LET v == Trim(ToLowerCase(val))
         IN  IF Includes(v, <<"b", "o", "t", "h">>) THEN <<"b", "o", "t", "h">>
             ELSE IF Includes(v, <<"m", "i", "n", "i">>) \/ Includes(v, <<"w", "e", "c", "h", "a", "t">>) THEN <<"m", "i", "n", "i", "_", "p", "r", "o", "g", "r", "a", "m">>
             ELSE <<"w", "e", "b", "s", "i", "t", "e">>

\* x || dflt, for a text that can be undefined or empty
OrDefault(x, dflt) == IF x = Null \/ x = <<>> THEN dflt ELSE x

\* part_009:731-734: the four fields as runDeriver hands them to the insert
NormalizedEnums(d) ==
    [build_effort |-> normalizeBuildEffort(OrDefault(d.build_effort, <<"1", "d">>)),
     competition_level |->
         normalizeCompetitionLevel(OrDefault(d.competition_level, <<"u", "n", "k", "n", "o", "w", "n">>)),
     estimated_search_volume |->
         normalizeSearchVolume(OrDefault(d.estimated_search_volume, <<"u", "n", "k", "n", "o", "w", "n">>)),
     product_form |-> normalizeProductForm(OrDefault(d.product_form, <<"w", "e", "b", "s", "i", "t", "e">>))]

(***************************************************************************)
(* derived_products                                                        *)
(***************************************************************************)
\* the columns of derived_products, migrations/002_pipeline_extensions.sql:22-49
DerivedColumns ==
    {"id", "opportunity_id", "signal_id", "parent_topic", "derivative_type", "title",
     "slug", "description", "target_keywords", "product_form", "estimated_search_volume",
     "competition_level", "monetization_strategy", "build_effort", "ai_reasoning",
     "score", "score_breakdown", "status", "rejection_reason", "created_at",
     "updated_at"}

\* status CHECK, migrations/002_pipeline_extensions.sql:43-45
DerivedStatuses ==
    {"derived", "validated", "planned", "generating", "deployed", "monitoring",
     "archived", "rejected"}

\* the CHECK constraints of derived_products on the columns of the model
DerivedChecks(row) ==
    /\ row.derivative_type \in DerivativeTypes
    /\ row.product_form \in Range(VALID_PRODUCT_FORMS)
    /\ row.estimated_search_volume \in Range(VALID_SEARCH_VOLUMES)
    /\ row.competition_level \in Range(VALID_COMPETITION_LEVELS)
    /\ row.build_effort \in Range(VALID_BUILD_EFFORTS)
    /\ row.status \in DerivedStatuses

\* insert into derived_products: slug UNIQUE, title NOT NULL, the CHECKs
DerivedInsertAccepted(tbl, row) ==
    /\ \A k \in 1..Len(tbl) : tbl[k].slug # row.slug
    /\ row.title # Null
    /\ DerivedChecks(row)

\* the row with the columns of the patch written over
Patched(row, patch) ==
    [f \in DOMAIN row |-> IF f \in DOMAIN patch THEN patch[f] ELSE row[f]]

\* an update that the store applies whatever columns the patch names
UpdateDerivedAnyColumn(tbl, id, patch) ==
    IF DerivedChecks(Patched(tbl[id], patch))
    THEN [tbl EXCEPT ![id] = Patched(tbl[id], patch)]
    ELSE tbl

\* update(patch).eq('id', id) on derived_products: the store refuses a patch
\* that names a column the table does not have, or that breaks a CHECK
UpdateDerived(tbl, id, patch) ==
    IF DOMAIN patch \subseteq DerivedColumns /\ DerivedChecks(Patched(tbl[id], patch))
    THEN [tbl EXCEPT ![id] = Patched(tbl[id], patch)]
    ELSE tbl

\* an idea of the reply; a field the reply leaves out is Null
Idea(title, type, keywords, score) ==
    [title |-> title, derivative_type |-> type, target_keywords |-> keywords,
     score |-> score, build_effort |-> Null, competition_level |-> Null,
     estimated_search_volume |-> Null, product_form |-> Null]

IdeaTutorial == Idea(<<"S", "e", "e", "d", "a", "n", "c", "e", " ", "t", "u", "t", "o", "r", "i", "a", "l">>, "tutorial", <<<<"s", "e", "e", "d", "a", "n", "c", "e", " ", "t", "u", "t", "o", "r", "i", "a", "l">>, <<"s", "e", "e", "d", "a", "n", "c", "e", " ", "g", "u", "i", "d", "e">>>>, 70)

IdeaHalfOverlap == Idea(<<"K", "l", "i", "n", "g", " ", "g", "u", "i", "d", "e">>, "directory", <<<<"g", "u", "i", "d", "e">>, <<"k", "l", "i", "n", "g">>>>, 60)

IdeaThirdOverlap == Idea(<<"K", "l", "i", "n", "g", " ", "v", "s", " ", "V", "e", "o">>, "comparison", <<<<"S", "E", "E", "D", "A", "N", "C", "E", " ", "G", "U", "I", "D", "E">>, <<"k", "l", "i", "n", "g">>, <<"v", "e", "o">>>>, 50)

IdeaLowScore == Idea(<<"V", "e", "o", " ", "p", "r", "o", "m", "p", "t", "s">>, "prompt_guide", <<<<"v", "e", "o", " ", "p", "r", "o", "m", "p", "t", "s">>>>, 30)

IdeaNoKeywords == Idea(<<"V", "e", "o", " ", "c", "h", "e", "a", "t", "s", "h", "e", "e", "t">>, "cheatsheet", Null, 45)

IdeaUnknownType == Idea(<<"Q", "u", "i", "z", " ", "m", "a", "k", "e", "r">>, "quiz", <<<<"q", "u", "i", "z", " ", "m", "a", "k", "e", "r">>>>, 90)

IdeaSameSlug == Idea(<<"S", "e", "e", "d", "a", "n", "c", "e", " ", "G", "u", "i", "d", "e", " ", "H", "u", "b", "!">>, "tool", <<<<"h", "u", "b">>>>, 80)

\* a reply with the enum fields in the words of the model
IdeaRawEnums ==
    [Idea(<<"V", "e", "o", " ", "p", "r", "i", "c", "i", "n", "g", " ", "c", "a", "l", "c", "u", "l", "a", "t", "o", "r">>, "calculator", <<<<"v", "e", "o", " ", "p", "r", "i", "c", "i", "n", "g">>, <<"v", "e", "o", " ", "c", "o", "s", "t">>>>, 65)
       EXCEPT !.build_effort = <<"h", "a", "l", "f", " ", "d", "a", "y">>, !.competition_level = <<"H", "a", "r", "d">>,
              !.estimated_search_volume = <<" ", "M", "e", "d", "i", "u", "m", "-", "H", "i", "g", "h", " ">>,
              !.product_form = <<"W", "e", "C", "h", "a", "t", " ", "m", "i", "n", "i", " ", "p", "r", "o", "g", "r", "a", "m">>]

\* a reply without a title
IdeaNoTitle == Idea(Null, "tool", <<<<"v", "e", "o", " ", "t", "o", "o", "l">>>>, 75)

\* result?.derivatives || [] of deriveFromOpportunity
Derivations ==
    { <<>>, <<IdeaTutorial, IdeaHalfOverlap>>,
      <<IdeaThirdOverlap, IdeaLowScore, IdeaNoKeywords>>,
      <<IdeaUnknownType, IdeaSameSlug>>,
      <<IdeaRawEnums>>, <<IdeaNoTitle, IdeaTutorial>> }

\* the row of part_009:736-759; by, nCompetitive and nKeyword are history:
\* the run that stored it, and how often checkCompetition and the
\* autocomplete lookups have been run for it
DerivedRow(d, oppId, t, by) ==
    LET e == NormalizedEnums(d)
    IN  [opportunity_id |-> oppId, title |-> d.title, slug |-> slugify(d.title),
         derivative_type |-> d.derivative_type,
         target_keywords |-> IF d.target_keywords = Null THEN <<>> ELSE d.target_keywords,
         product_form |-> e.product_form,
         estimated_search_volume |-> e.estimated_search_volume,
         competition_level |-> e.competition_level,
         build_effort |-> e.build_effort,
         score |-> d.score, status |-> "derived",
         created_at |-> t \div 1000, by |-> by, nCompetitive |-> 0, nKeyword |-> 0]

\* a derivative an earlier run stored, of an opportunity that is gone
StoredDerivative(status, created_at) ==
    [DerivedRow(Idea(<<"S", "e", "e", "d", "a", "n", "c", "e", " ", "g", "u", "i", "d", "e", " ", "h", "u", "b">>, "tutorial", <<<<"S", "e", "e", "d", "a", "n", "c", "e", " ", "G", "u", "i", "d", "e">>>>, 70), 0, 0, "earlier")
       EXCEPT !.status = status, !.created_at = created_at]

\* the next idea of the reply that passes the score filter (part_009:716-721),
\* or the end of the item; slugify(d.title) of part_009:723 throws a
\* TypeError for an idea without a title (helpers.ts:30, text.toLowerCase())
RECURSIVE NextIdea(_, _)
NextIdea(rec, j) ==
    IF j > Len(rec.cur.ideas) THEN AfterItem(rec)
    ELSE IF rec.cur.ideas[j].score < MIN_DERIVATIVE_SCORE THEN NextIdea(rec, j + 1)
    ELSE IF rec.cur.ideas[j].title = Null THEN Throw([rec EXCEPT !.j = j])
    ELSE [rec EXCEPT !.j = j, !.pc = "dupSlug"]

DeriverSelect(r) ==
    /\ runs[r].stage = "deriver" /\ runs[r].pc = "select"
    /\ LET opps == SelectOppsToDerive(opportunities)
       IN  runs' = [runs EXCEPT ![r] =
               IF Len(opps) = 0 THEN [@ EXCEPT !.pc = "done"]
               ELSE [@ EXCEPT !.sub = opps, !.j = 1, !.items = <<>>, !.pc = "count"]]
    /\ UNCHANGED <<keyword_validations, now, cost_tracking, signals, raw_data, opportunities, derived_products,
                   competitive_checks, nruns>>
    /\ UNCHANGED nonStageVars

\* one count query of part_009:677-686; after the last, part_009:688-691
DeriverCount(r) ==
    /\ runs[r].stage = "deriver" /\ runs[r].pc = "count"
    /\ LET rec   == runs[r]
           opp   == rec.sub[rec.j]
           items == IF CountDerived(derived_products, opp) = 0
                    THEN Append(rec.items, opp) ELSE rec.items
       IN  runs' = [runs EXCEPT ![r] =
               IF rec.j + 1 <= Len(rec.sub) THEN [rec EXCEPT !.items = items, !.j = @ + 1]
               ELSE IF Len(items) = 0 THEN [rec EXCEPT !.pc = "done", !.sub = <<>>, !.j = 0]
               ELSE [rec EXCEPT !.items = items, !.sub = <<>>, !.j = 0, !.idx = 1,
                                !.pc = "itemBudget"]]
    /\ UNCHANGED <<keyword_validations, now, cost_tracking, signals, raw_data, opportunities, derived_products,
                   competitive_checks, nruns>>
    /\ UNCHANGED nonStageVars

\* deriveFromOpportunity returns (part_009:708-713)
DeriverDerive(r) ==
    /\ runs[r].stage = "deriver" /\ runs[r].pc = "ai"
    /\ \E charged \in BOOLEAN, ideas \in Derivations :
          /\ ideas # <<>> => charged
          /\ cost_tracking' = IF charged THEN ChargeCall(cost_tracking, now, "deriver")
                              ELSE cost_tracking
          /\ runs' = [runs EXCEPT ![r] =
                NextIdea([NoteAiCall(runs[r]) EXCEPT
                             !.cur = [kind |-> "ideas", ideas |-> ideas],
                             !.nullReplies = @ + (IF ideas = <<>> THEN 1 ELSE 0)],
                         1)]
    /\ UNCHANGED <<keyword_validations, now, signals, raw_data, opportunities, derived_products, competitive_checks, nruns>>
    /\ UNCHANGED nonStageVars

\* isDuplicate, the select by slug (part_009:615-621)
DeriverDupSlug(r) ==
    /\ runs[r].stage = "deriver" /\ runs[r].pc = "dupSlug"
    /\ LET rec  == runs[r]
           slug == slugify(rec.cur.ideas[rec.j].title)
           hit  == MaybeSingle({k \in 1..Len(derived_products) :
                                   derived_products[k].slug = slug})
       IN  runs' = [runs EXCEPT ![r] =
               IF hit # 0 THEN NextIdea(rec, rec.j + 1) ELSE [rec EXCEPT !.pc = "dupRecent"]]
    /\ UNCHANGED <<keyword_validations, now, cost_tracking, signals, raw_data, opportunities, derived_products,
                   competitive_checks, nruns>>
    /\ UNCHANGED nonStageVars

\* isDuplicate, the select of the recent derivatives and the comparison of
\* the keywords (part_009:623-644)
DeriverDupRecent(r) ==
    /\ runs[r].stage = "deriver" /\ runs[r].pc = "dupRecent"
    /\ LET rec  == runs[r]
           d    == rec.cur.ideas[rec.j]
           dup  == \E k \in RecentDerivatives(derived_products, now) :
                      KeywordsOverlap(d.target_keywords, derived_products[k].target_keywords)
           seen == [rec EXCEPT !.checked = [tbl |-> derived_products, at |-> now]]
       IN  runs' = [runs EXCEPT ![r] =
               IF dup THEN NextIdea([seen EXCEPT !.dupSkipped = @ + 1], rec.j + 1)
               ELSE [seen EXCEPT !.pc = "insert"]]
    /\ UNCHANGED <<keyword_validations, now, cost_tracking, signals, raw_data, opportunities, derived_products,
                   competitive_checks, nruns>>
    /\ UNCHANGED nonStageVars

\* the insert of part_009:736-759
DeriverInsert(r) ==
    /\ runs[r].stage = "deriver" /\ runs[r].pc = "insert"
    /\ LET rec == runs[r]
           row == DerivedRow(rec.cur.ideas[rec.j], rec.items[rec.idx], now, r)
       IN  /\ derived_products' = IF DerivedInsertAccepted(derived_products, row)
                                  THEN Append(derived_products, row)
                                  ELSE derived_products
           /\ runs' = [runs EXCEPT ![r] = NextIdea(rec, rec.j + 1)]
    /\ UNCHANGED <<keyword_validations, now, cost_tracking, signals, raw_data, opportunities, competitive_checks, nruns>>
    /\ UNCHANGED nonStageVars

(***************************************************************************)
(* runCompetitiveCheck, part_010:208-328                                   *)
(***************************************************************************)
\* config.competitive.maxChecksPerRun
MAX_CHECKS_PER_RUN == 10

\* config.competitive.bigSiteDomainThreshold
BIG_SITE_THRESHOLD == 7

\* difficulty_assessment CHECK, migrations/003_validation_tables.sql:13
Difficulties == {"easy", "moderate", "hard", "very_hard"}

\* what checkCompetition comes back with: the count of big sites of the
\* search results and the analysis of the model, or none
NoAnalysis == [difficulty |-> "unknown", content_gap_found |-> FALSE]

\* the last is a reply in words of the model's own: "medium" is none of the
\* four difficulties the prompt asks for
CompetitionResults ==
    { [bigCount |-> 0, analysis |-> NoAnalysis],
      [bigCount |-> 0, analysis |-> [difficulty |-> "easy", content_gap_found |-> TRUE]],
      [bigCount |-> 0, analysis |-> [difficulty |-> "very_hard", content_gap_found |-> FALSE]],
      [bigCount |-> 7, analysis |-> [difficulty |-> "moderate", content_gap_found |-> FALSE]],
      [bigCount |-> 7, analysis |-> [difficulty |-> "hard", content_gap_found |-> TRUE]],
      [bigCount |-> 0, analysis |-> [difficulty |-> "medium", content_gap_found |-> FALSE]] }

\* part_010:221-226
SelectDerivedToCheck(tbl) ==
    FirstN(ByScoreDesc(tbl, {k \in 1..Len(tbl) : tbl[k].status = "derived"}),
           MAX_CHECKS_PER_RUN)

CountChecks(tbl, id) == Cardinality({k \in 1..Len(tbl) : tbl[k].derived_product_id = id})

\* part_010:285-287
ShouldReject(res) ==
    \/ res.analysis.difficulty = "very_hard"
    \/ (res.bigCount >= BIG_SITE_THRESHOLD /\ ~res.analysis.content_gap_found)

\* part_010:306
CompetitionLevel(difficulty) ==
    IF difficulty = "easy" THEN <<"l", "o", "w">>
    ELSE IF difficulty = "moderate" THEN <<"m", "e", "d", "i", "u", "m">> ELSE <<"h", "i", "g", "h">>

\* the patch of part_010:290-299 (reject) or 305-316 (pass)
CompetitivePatch(res, t) ==
    IF ShouldReject(res)
    THEN [status |-> "rejected", rejection_reason |-> "Competition too high",
          competitive_data |-> res, updated_at |-> t]
    ELSE [competition_level |-> CompetitionLevel(res.analysis.difficulty),
          competitive_data |-> res, updated_at |-> t]

CompSelect(r) ==
    /\ runs[r].stage = "competitive" /\ runs[r].pc = "select"
    /\ LET ds == SelectDerivedToCheck(derived_products)
       IN  runs' = [runs EXCEPT ![r] =
               IF Len(ds) = 0 THEN [@ EXCEPT !.pc = "done"]
               ELSE [@ EXCEPT !.sub = ds, !.j = 1, !.items = <<>>, !.pc = "count"]]
    /\ UNCHANGED <<keyword_validations, now, cost_tracking, signals, raw_data, opportunities, derived_products,
                   competitive_checks, nruns>>
    /\ UNCHANGED nonStageVars

\* one count query of part_010:235-244; after the last, part_010:246-249
CompCount(r) ==
    /\ runs[r].stage = "competitive" /\ runs[r].pc = "count"
    /\ LET rec   == runs[r]
           d     == rec.sub[rec.j]
           items == IF CountChecks(competitive_checks, d) = 0
                    THEN Append(rec.items, d) ELSE rec.items
       IN  runs' = [runs EXCEPT ![r] =
               IF rec.j + 1 <= Len(rec.sub) THEN [rec EXCEPT !.items = items, !.j = @ + 1]
               ELSE IF Len(items) = 0 THEN [rec EXCEPT !.pc = "done", !.sub = <<>>, !.j = 0]
               ELSE [rec EXCEPT !.items = items, !.sub = <<>>, !.j = 0, !.idx = 1,
                                !.pc = "itemBudget"]]
    /\ UNCHANGED <<keyword_validations, now, cost_tracking, signals, raw_data, opportunities, derived_products,
                   competitive_checks, nruns>>
    /\ UNCHANGED nonStageVars

\* checkCompetition returns (part_010:263-270); it invokes the Router once on
\* either path (part_010:190, 196)
CompCheck(r) ==
    /\ runs[r].stage = "competitive" /\ runs[r].pc = "ai"
    /\ \E charged \in BOOLEAN, res \in CompetitionResults :
          /\ res.analysis # NoAnalysis => charged
          /\ cost_tracking' = IF charged THEN ChargeCall(cost_tracking, now, "competitive")
                              ELSE cost_tracking
          /\ runs' = [runs EXCEPT ![r] =
                [NoteAiCall(runs[r]) EXCEPT !.cur = res, !.pc = "insert",
                     !.nullReplies = @ + (IF res.analysis = NoAnalysis THEN 1 ELSE 0)]]
    /\ derived_products' =
          [derived_products EXCEPT ![runs[r].items[runs[r].idx]].nCompetitive = @ + 1]
    /\ UNCHANGED <<keyword_validations, now, signals, raw_data, opportunities, competitive_checks,
                   nruns>>
    /\ UNCHANGED nonStageVars

\* the insert of part_010:273-282; difficulty_assessment is null for
\* 'unknown', and the store refuses a difficulty outside the CHECK
CompInsert(r) ==
    /\ runs[r].stage = "competitive" /\ runs[r].pc = "insert"
    /\ LET rec == runs[r]
           row == [derived_product_id |-> rec.items[rec.idx],
                   big_site_count |-> rec.cur.bigCount,
                   content_gap_found |-> rec.cur.analysis.content_gap_found,
                   difficulty_assessment |-> rec.cur.analysis.difficulty]
       IN  /\ competitive_checks' =
                 IF row.difficulty_assessment \in Difficulties \cup {"unknown"}
                 THEN Append(competitive_checks, row) ELSE competitive_checks
           /\ runs' = [runs EXCEPT ![r] = [rec EXCEPT !.pc = "update"]]
    /\ UNCHANGED <<keyword_validations, now, cost_tracking, signals, raw_data, opportunities, derived_products, nruns>>
    /\ UNCHANGED nonStageVars

\* the update of part_010:289-319
CompUpdate(r) ==
    /\ runs[r].stage = "competitive" /\ runs[r].pc = "update"
    /\ LET rec == runs[r]
           id  == rec.items[rec.idx]
       IN  /\ derived_products' =
                 UpdateDerived(derived_products, id, CompetitivePatch(rec.cur, now))
           /\ runs' = [runs EXCEPT ![r] =
                 AfterItem([rec EXCEPT !.last = [id |-> id, res |-> rec.cur]])]
    /\ UNCHANGED <<keyword_validations, now, cost_tracking, signals, raw_data, opportunities, competitive_checks, nruns>>
    /\ UNCHANGED nonStageVars

(***************************************************************************)
(* runScout and preFilterRawSignals, part_009:334-452                      *)
(***************************************************************************)
\* the scrapers have run (part_009:424-434): the signals they found are
\* saved with status 'raw', or nothing is saved
ScoutScrape(r) ==
    /\ runs[r].stage = "scout" /\ runs[r].pc = "scrape"
    /\ \E saved \in BOOLEAN :
          signals' = [id \in DOMAIN signals |->
                         IF saved /\ signals[id] = "none" THEN "raw" ELSE signals[id]]
    /\ raw_data' = raw_data
    /\ runs' = [runs EXCEPT ![r] = [@ EXCEPT !.pc = "select"]]
    /\ UNCHANGED <<keyword_validations, now, cost_tracking, opportunities, derived_products,
                   competitive_checks, nruns>>
    /\ UNCHANGED nonStageVars

\* part_009:335-345
ScoutSelect(r) ==
    /\ runs[r].stage = "scout" /\ runs[r].pc = "select"
    /\ LET rawSignals == SelectSignals(signals, "raw")
       IN  runs' = [runs EXCEPT ![r] =
               IF Len(rawSignals) = 0 THEN [@ EXCEPT !.pc = "done"]
               ELSE [@ EXCEPT !.items = [k \in 1..Len(rawSignals) |-> rawSignals[k].id],
                              !.idx = 1, !.pc = "itemBudget"]]
    /\ UNCHANGED <<keyword_validations, now, cost_tracking, signals, raw_data, opportunities, derived_products,
                   competitive_checks, nruns>>
    /\ UNCHANGED nonStageVars

\* the replies of preFilterSignal: null, is_emerging true or false
PreFilterResults == {"null", "emerging", "stale"}

\* preFilterSignal returns (part_009:358-363)
ScoutPreFilter(r) ==
    /\ runs[r].stage = "scout" /\ runs[r].pc = "ai"
    /\ \E charged \in BOOLEAN, res \in PreFilterResults :
          /\ res # "null" => charged
          /\ cost_tracking' = IF charged THEN ChargeCall(cost_tracking, now, "scout")
                              ELSE cost_tracking
          /\ runs' = [runs EXCEPT ![r] =
                [NoteAiCall(runs[r]) EXCEPT !.cur = [kind |-> res], !.pc = "update"]]
    /\ UNCHANGED <<keyword_validations, now, signals, raw_data, opportunities, derived_products, competitive_checks, nruns>>
    /\ UNCHANGED nonStageVars

\* the update of part_009:365-388
ScoutUpdate(r) ==
    /\ runs[r].stage = "scout" /\ runs[r].pc = "update"
    /\ LET rec == runs[r]
       IN  /\ signals' = UpdateSignalStatus(signals, rec.items[rec.idx],
                            IF rec.cur.kind = "emerging" THEN "analyzed" ELSE "dismissed")
           /\ raw_data' = IF rec.cur.kind = "emerging" THEN raw_data
                          ELSE UpdateDismissReason(signals, raw_data, rec.items[rec.idx],
                                                   "dismissed", NotEmerging)
           /\ runs' = [runs EXCEPT ![r] = AfterItem(rec)]
    /\ UNCHANGED <<keyword_validations, now, cost_tracking, opportunities, derived_products,
                   competitive_checks, nruns>>
    /\ UNCHANGED nonStageVars

(***************************************************************************)
(* runKeywordValidation, keyword-validator/index.ts:103-234                *)
(***************************************************************************)
\* config.keywordValidator.maxPerRun
KEYWORD_MAX_PER_RUN == 15

\* keywords.slice(0, 4), keyword-validator/index.ts:166
KEYWORDS_PER_DERIVATIVE == 4

\* the thresholds of estimateSearchVolume, keyword-validator/index.ts:76-78
VOLUME_HIGH == 15

VOLUME_MEDIUM == 8

VOLUME_LOW == 3

\* the thresholds of estimateDifficulty, keyword-validator/index.ts:94, 95
DIFFICULTY_MODERATE == 20

DIFFICULTY_EASY == 5

\* search_volume_estimate CHECK, migrations/003_validation_tables.sql:28
VolumeEstimates == {<<"h", "i", "g", "h">>, <<"m", "e", "d", "i", "u", "m">>, <<"l", "o", "w">>, <<"n", "o", "n", "e">>, <<"u", "n", "k", "n", "o", "w", "n">>}

\* keyword_difficulty CHECK, migrations/003_validation_tables.sql:29
KeywordDifficulties == {"easy", "moderate", "hard", "unknown"}

\* how many suggestions getAutocompleteSuggestions comes back with for one
\* keyword (0 when the request fails, keyword-validator/index.ts:26-29, 39-42)
SuggestionCounts == {0, 2, 3, 8, 16, 20}

\* totalSuggestions of keyword-validator/index.ts:59-60 and 93
RECURSIVE TotalSuggestions(_)
TotalSuggestions(results) ==
    IF Len(results) = 0 THEN 0 ELSE results[1].count + TotalSuggestions(Tail(results))

\* estimateSearchVolume, keyword-validator/index.ts:51-82: the volume
\* (exactMatches goes to seo_data only)
estimateSearchVolume(results) ==
    LET totalSuggestions == TotalSuggestions(results)
    IN  IF totalSuggestions >= VOLUME_HIGH THEN <<"h", "i", "g", "h">>
        ELSE IF totalSuggestions >= VOLUME_MEDIUM THEN <<"m", "e", "d", "i", "u", "m">>
        ELSE IF totalSuggestions >= VOLUME_LOW THEN <<"l", "o", "w">>
        ELSE <<"n", "o", "n", "e">>

\* estimateDifficulty, keyword-validator/index.ts:87-98
estimateDifficulty(results, competitionLevel) ==
    IF competitionLevel = <<"h", "i", "g", "h">> THEN "hard"
    ELSE IF competitionLevel = <<"l", "o", "w">> THEN "easy"
    ELSE IF TotalSuggestions(results) >= DIFFICULTY_MODERATE THEN "moderate"
    ELSE IF TotalSuggestions(results) >= DIFFICULTY_EASY THEN "easy"
    ELSE "unknown"

\* keyword-validator/index.ts:191
KeywordShouldReject(volume, difficulty) ==
    volume = <<"n", "o", "n", "e">> \/ (volume = <<"l", "o", "w">> /\ difficulty = "hard")

\* the patch of keyword-validator/index.ts:194-204 (reject) or 210-221
\* (approve)
KeywordPatch(volume, difficulty, total, t) ==
    IF KeywordShouldReject(volume, difficulty)
    THEN [status |-> "rejected", rejection_reason |-> "Low search demand",
          seo_data |-> [search_volume |-> volume, total_suggestions |-> total,
                        keyword_difficulty |-> difficulty],
          updated_at |-> t]
    ELSE [status |-> "validated", estimated_search_volume |-> volume,
          seo_data |-> [search_volume |-> volume, total_suggestions |-> total,
                        keyword_difficulty |-> difficulty],
          updated_at |-> t]

\* keyword-validator/index.ts:118-124: the derivatives to validate, as the
\* select returns them
SelectDerivedToValidate(tbl) ==
    LET ks == FirstN(ByScoreDesc(tbl, {k \in 1..Len(tbl) :
                                          /\ tbl[k].status = "derived"
                                          /\ tbl[k].competition_level # <<"u", "n", "k", "n", "o", "w", "n">>}),
                     KEYWORD_MAX_PER_RUN)
    IN  [i \in 1..Len(ks) |-> [id |-> ks[i], row |-> tbl[ks[i]]]]

\* select count, keyword-validator/index.ts:134-137
CountValidations(tbl, id) ==
    Cardinality({k \in 1..Len(tbl) : tbl[k].derived_product_id = id})

\* insert into keyword_validations: the CHECKs of
\* migrations/003_validation_tables.sql:28, 29
ValidationInsertAccepted(row) ==
    /\ row.search_volume_estimate \in VolumeEstimates
    /\ row.keyword_difficulty \in KeywordDifficulties

\* the inserts of keyword-validator/index.ts:178-188, one row a result
RECURSIVE InsertValidations(_, _, _, _, _)
InsertValidations(tbl, id, results, volume, difficulty) ==
    IF Len(results) = 0 THEN tbl
    ELSE LET row == [derived_product_id |-> id, keyword |-> results[1].keyword,
                     autocomplete_count |-> results[1].count,
                     search_volume_estimate |-> volume,
                     keyword_difficulty |-> difficulty]
         IN  InsertValidations(IF ValidationInsertAccepted(row) THEN Append(tbl, row)
                               ELSE tbl,
                               id, Tail(results), volume, difficulty)

KeywordSelect(r) ==
    /\ runs[r].stage = "keyword" /\ runs[r].pc = "select"
    /\ LET ds == SelectDerivedToValidate(derived_products)
       IN  runs' = [runs EXCEPT ![r] =
               IF Len(ds) = 0 THEN [@ EXCEPT !.pc = "done"]
               ELSE [@ EXCEPT !.sub = ds, !.j = 1, !.items = <<>>, !.pc = "count"]]
    /\ UNCHANGED <<keyword_validations, now, cost_tracking, signals, raw_data, opportunities,
                   derived_products, competitive_checks, nruns>>
    /\ UNCHANGED nonStageVars

\* one count query of keyword-validator/index.ts:133-142; after the last,
\* keyword-validator/index.ts:144-147
KeywordCount(r) ==
    /\ runs[r].stage = "keyword" /\ runs[r].pc = "count"
    /\ LET rec   == runs[r]
           d     == rec.sub[rec.j]
           items == IF CountValidations(keyword_validations, d.id) = 0
                    THEN Append(rec.items, d) ELSE rec.items
       IN  runs' = [runs EXCEPT ![r] =
               IF rec.j + 1 <= Len(rec.sub) THEN [rec EXCEPT !.items = items, !.j = @ + 1]
               ELSE IF Len(items) = 0 THEN [rec EXCEPT !.pc = "done", !.sub = <<>>, !.j = 0]
               ELSE [rec EXCEPT !.items = items, !.sub = <<>>, !.j = 0, !.idx = 1,
                                !.pc = "lookup"]]
    /\ UNCHANGED <<keyword_validations, now, cost_tracking, signals, raw_data, opportunities,
                   derived_products, competitive_checks, nruns>>
    /\ UNCHANGED nonStageVars

\* keyword-validator/index.ts:156-175: a derivative without keywords is
\* skipped; else the autocomplete lookups of its first four keywords, the
\* volume and the difficulty
KeywordLookup(r) ==
    /\ runs[r].stage = "keyword" /\ runs[r].pc = "lookup"
    /\ LET rec      == runs[r]
           d        == rec.items[rec.idx]
           keywords == FirstN(d.row.target_keywords, KEYWORDS_PER_DERIVATIVE)
       IN  IF Len(d.row.target_keywords) = 0
           THEN /\ runs' = [runs EXCEPT ![r] = AfterItem(rec)]
                /\ derived_products' = derived_products
           ELSE \E counts \in [1..Len(keywords) -> SuggestionCounts] :
                   LET results == [i \in 1..Len(keywords) |->
                                      [keyword |-> keywords[i], count |-> counts[i]]]
                   IN  /\ runs' = [runs EXCEPT ![r] =
                             [rec EXCEPT !.pc = "insert",
                                 !.cur = [results |-> results,
                                          volume |-> estimateSearchVolume(results),
                                          difficulty |->
                                              estimateDifficulty(results,
                                                  OrDefault(d.row.competition_level,
                                                            <<"u", "n", "k", "n", "o", "w", "n">>))]]]
                       /\ derived_products' =
                             [derived_products EXCEPT ![d.id].nKeyword = @ + 1]
    /\ UNCHANGED <<keyword_validations, now, cost_tracking, signals, raw_data, opportunities,
                   competitive_checks, nruns>>
    /\ UNCHANGED nonStageVars

\* the inserts of keyword-validator/index.ts:178-188
KeywordInsert(r) ==
    /\ runs[r].stage = "keyword" /\ runs[r].pc = "insert"
    /\ LET rec == runs[r]
       IN  /\ keyword_validations' =
                 InsertValidations(keyword_validations, rec.items[rec.idx].id,
                                   rec.cur.results, rec.cur.volume, rec.cur.difficulty)
           /\ runs' = [runs EXCEPT ![r] = [rec EXCEPT !.pc = "update"]]
    /\ UNCHANGED <<now, cost_tracking, signals, raw_data, opportunities, derived_products,
                   competitive_checks, nruns>>
    /\ UNCHANGED nonStageVars

\* the update of keyword-validator/index.ts:193-225
KeywordUpdate(r) ==
    /\ runs[r].stage = "keyword" /\ runs[r].pc = "update"
    /\ LET rec == runs[r]
       IN  /\ derived_products' =
                 UpdateDerived(derived_products, rec.items[rec.idx].id,
                               KeywordPatch(rec.cur.volume, rec.cur.difficulty,
                                            TotalSuggestions(rec.cur.results), now))
           /\ runs' = [runs EXCEPT ![r] =
                 AfterItem([rec EXCEPT !.last = [id |-> rec.items[rec.idx].id,
                                                 volume |-> rec.cur.volume,
                                                 difficulty |-> rec.cur.difficulty,
                                                 total |-> TotalSuggestions(rec.cur.results)]])]
    /\ UNCHANGED <<keyword_validations, now, cost_tracking, signals, raw_data, opportunities,
                   competitive_checks, nruns>>
    /\ UNCHANGED nonStageVars

(***************************************************************************)
(* Part 5: specifications                                                  *)
(***************************************************************************)
\* no invocation of the router is in progress
IdleRouter ==
    /\ exhaustedProviderCache = <<>>
    /\ calls = [c \in Callers |-> IdleCall]
    /\ ncalls = 0
    /\ lastQuotaError = [pk \in PairKeys |-> -1]

\* nothing handed in, nothing returned
NoValue == [kind |-> "none"]

\* no pure function is being applied
InitNoPure ==
    /\ input = NoValue
    /\ output = NoValue

\* no stage run is in progress, on a store without rows
InitNoRuns ==
    /\ signals = [id \in Range(SignalIds) |-> "none"]
    /\ raw_data = [id \in Range(SignalIds) |-> NoRawData]
    /\ opportunities = <<>>
    /\ derived_products = <<>>
    /\ competitive_checks = <<>>
    /\ keyword_validations = <<>>
    /\ runs = [r \in Triggers |-> IdleRun]
    /\ nruns = 0

InitRouter ==
    /\ now = 0
    /\ ai_api_keys \in KeyPools
    /\ cost_tracking = <<>>
    /\ IdleRouter
    /\ InitNoGroup
    /\ InitNoPure
    /\ InitNoRuns

RouterStep(c) ==
    \/ Invoke(c)
    \/ LoadKeys(c)
    \/ AttemptFails(c)
    \/ ReportErrorRead(c)
    \/ ReportErrorWrite(c)
    \/ AttemptSucceeds(c)
    \/ ReportSuccessRead(c)
    \/ ReportSuccessWrite(c)
    \/ TrackCostRead(c)
    \/ TrackCostWriteAndReturn(c)
    \/ Finish(c)

\* router invocations made one after another (one stage run at a time)
NextRouter ==
    \/ Tick
    \/ RouterStep("cron")

SpecRouter == InitRouter /\ [][NextRouter]_vars

\* router invocations of a cron-started and a manually started run that
\* overlap, on a pool of two active keys
InitOverlap ==
    /\ now = 0
    /\ ai_api_keys = PoolOverlap
    /\ cost_tracking = <<>>
    /\ IdleRouter
    /\ InitNoGroup
    /\ InitNoPure
    /\ InitNoRuns

NextOverlap ==
    \/ Tick
    \/ \E c \in Callers : RouterStep(c)

SpecOverlap == InitOverlap /\ [][NextOverlap]_vars

\* groupSignalsByTopic on every batch of the pool
InitGrouping ==
    /\ InitGroup
    /\ now = 0
    /\ ai_api_keys = PoolOverlap
    /\ cost_tracking = <<>>
    /\ IdleRouter
    /\ InitNoRuns
    /\ InitNoPure

NextGrouping == GroupBatch

SpecGroup == InitGrouping /\ [][NextGrouping]_vars

\* a derivative as runDeriver stores it for an idea with competition_level
\* "low" (part_009:732, 747)
StoredWithCompetition ==
    DerivedRow([Idea(<<"K", "l", "i", "n", "g", " ", "v", "s", " ", "S", "e", "e", "d", "a", "n", "c", "e">>, "comparison", <<<<"k", "l", "i", "n", "g", " ", "v", "s", " ", "s", "e", "e", "d", "a", "n", "c", "e">>, <<"k", "l", "i", "n", "g", " ", "a", "l", "t", "e", "r", "n", "a", "t", "i", "v", "e">>>>, 60)
                  EXCEPT !.competition_level = <<"l", "o", "w">>],
               0, 0 - 100000, "earlier")

\* the derivatives the store can hold at the start: none, or one stored by
\* an earlier run a moment ago, exactly 30 days ago or a second more than
\* 30 days ago (created_at in seconds from the origin of the clock)
StoredDerivatives ==
    { <<>>,
      <<StoredDerivative("derived", 0 - 100)>>,
      <<StoredDerivative("rejected", 0 - 100)>>,
      <<StoredDerivative("derived", 0 - THIRTY_DAYS_S)>>,
      <<StoredDerivative("derived", 0 - THIRTY_DAYS_S - 1)>>,
      <<StoredWithCompetition>> }

\* the stores the stage runs start on: nothing scraped yet; or the signals
\* analyzed, with or without an opportunity and a derivative of earlier runs
InitStore ==
    \/ /\ signals = [id \in Range(SignalIds) |-> "none"]
       /\ raw_data = [id \in Range(SignalIds) |-> NoRawData]
       /\ opportunities = <<>>
       /\ derived_products = <<>>
    \/ /\ signals = [id \in Range(SignalIds) |-> "analyzed"]
       /\ raw_data = [id \in Range(SignalIds) |-> NoRawData]
       /\ \/ opportunities = <<>> /\ derived_products = <<>>
          \/ opportunities = <<StoredOpp>> /\ derived_products \in StoredDerivatives

InitStages ==
    /\ now = 0
    /\ cost_tracking \in Ledgers
    /\ InitStore
    /\ competitive_checks = <<>>
    /\ keyword_validations = <<>>
    /\ runs = [r \in Triggers |-> IdleRun]
    /\ nruns = 0
    /\ ai_api_keys = PoolOverlap
    /\ IdleRouter
    /\ InitNoGroup
    /\ InitNoPure

AnalystStep(r, pool) ==
    \/ AnalystSelect(r)
    \/ AnalystDismiss(r)
    \/ AnalystLoadOpps(r)
    \/ AnalystEvaluate(r, pool)
    \/ AnalystMarkEvaluated(r)
    \/ AnalystSlugSelect(r)
    \/ AnalystInsert(r)
    \/ AnalystFinalMark(r)

DeriverStep(r) ==
    \/ DeriverSelect(r)
    \/ DeriverCount(r)
    \/ DeriverDerive(r)
    \/ DeriverDupSlug(r)
    \/ DeriverDupRecent(r)
    \/ DeriverInsert(r)

CompetitiveStep(r) ==
    \/ CompSelect(r)
    \/ CompCount(r)
    \/ CompCheck(r)
    \/ CompInsert(r)
    \/ CompUpdate(r)

ScoutStep(r) ==
    \/ ScoutScrape(r)
    \/ ScoutSelect(r)
    \/ ScoutPreFilter(r)
    \/ ScoutUpdate(r)

KeywordStep(r) ==
    \/ KeywordSelect(r)
    \/ KeywordCount(r)
    \/ KeywordLookup(r)
    \/ KeywordInsert(r)
    \/ KeywordUpdate(r)

\* stage runs one after another, as the cron schedule starts them
NextStages ==
    \/ StartRun("cron", Stages)
    \/ EntryBudget("cron")
    \/ ItemBudget("cron")
    \/ FinishRun("cron")
    \/ ScoutStep("cron")
    \/ AnalystStep("cron", Assessments)
    \/ DeriverStep("cron")
    \/ CompetitiveStep("cron")
    \/ KeywordStep("cron")

SpecStages == InitStages /\ [][NextStages]_vars

\* Competitive Check and Keyword Validation runs, started by cron and by
\* the manual triggers, that overlap, on derivatives of earlier Deriver runs
GateDerivatives ==
    { <<StoredWithCompetition>>,
      <<StoredWithCompetition, StoredDerivative("derived", 0 - 100)>> }

InitGates ==
    /\ now = 0
    /\ cost_tracking = <<>>
    /\ signals = [id \in Range(SignalIds) |-> "analyzed"]
    /\ raw_data = [id \in Range(SignalIds) |-> NoRawData]
    /\ opportunities = <<StoredOpp>>
    /\ derived_products \in GateDerivatives
    /\ competitive_checks = <<>>
    /\ keyword_validations = <<>>
    /\ runs = [r \in Triggers |-> IdleRun]
    /\ nruns = 0
    /\ ai_api_keys = PoolOverlap
    /\ IdleRouter
    /\ InitNoGroup
    /\ InitNoPure

NextGates ==
    \E r \in Triggers :
        \/ StartRun(r, {"competitive", "keyword"})
        \/ EntryBudget(r)
        \/ ItemBudget(r)
        \/ FinishRun(r)
        \/ CompetitiveStep(r)
        \/ KeywordStep(r)

SpecGates == InitGates /\ [][NextGates]_vars

\* a cron-started and a manually started Analyst run that overlap, with the
\* assessments that bear on the dedup
OverlapAssessments == {AssessGood, AssessSimilarLow, AssessLowViability}

InitAnalystOverlap ==
    /\ now = 0
    /\ cost_tracking = <<>>
    /\ signals = [id \in Range(SignalIds) |-> "analyzed"]
    /\ raw_data = [id \in Range(SignalIds) |-> NoRawData]
    /\ opportunities = <<>>
    /\ derived_products = <<>>
    /\ competitive_checks = <<>>
    /\ keyword_validations = <<>>
    /\ runs = [r \in Triggers |-> IdleRun]
    /\ nruns = 0
    /\ ai_api_keys = PoolOverlap
    /\ IdleRouter
    /\ InitNoGroup
    /\ InitNoPure

NextAnalystOverlap ==
    \E r \in Triggers :
        \/ StartRun(r, {"analyst"})
        \/ EntryBudget(r)
        \/ ItemBudget(r)
        \/ FinishRun(r)
        \/ AnalystStep(r, OverlapAssessments)

SpecAnalystOverlap == InitAnalystOverlap /\ [][NextAnalystOverlap]_vars

(***************************************************************************)
(* the pure functions, applied to drawn arguments                          *)
(***************************************************************************)
\* everything but the argument and the result is at rest
InitPure ==
    /\ now = 0
    /\ ai_api_keys = <<>>
    /\ cost_tracking = <<>>
    /\ IdleRouter
    /\ InitNoGroup
    /\ InitNoRuns
    /\ output = NoValue

\* a dimension of score_breakdown as the model can give it: left out, or a
\* number of 0 to 100
DimensionValues == {Missing, 0, 1, 50, 100}

ScoreBreakdowns ==
    { Breakdown(ds, mo, seo, bv, ts, lt, nv) :
          ds \in DimensionValues, mo \in DimensionValues, seo \in DimensionValues,
          bv \in DimensionValues, ts \in {Missing, 0, 100}, lt \in {Missing, 0, 100},
          nv \in {Missing, 0, 100} }

InitScore ==
    /\ InitPure
    /\ \E b \in ScoreBreakdowns : input = [kind |-> "breakdown", value |-> b]

\* analyst/index.ts:618
ApplyWeightedScore ==
    /\ input.kind = "breakdown" /\ output = NoValue
    /\ output' = [kind |-> "score", value |-> calculateWeightedScore(input.value)]
    /\ UNCHANGED input
    /\ UNCHANGED nonPureVars

NextScore == ApplyWeightedScore

SpecScore == InitScore /\ [][NextScore]_vars

\* what the model writes into one of the four fields of an idea
RawEnumValues ==
    { Null, <<>>, <<"4", "h">>, <<"h", "a", "l", "f", " ", "d", "a", "y">>, <<"H", "a", "r", "d">>, <<"m", "e", "d", "i", "u", "m">>, <<"u", "n", "k", "n", "o", "w", "n">>,
      <<" ", "M", "e", "d", "i", "u", "m", "-", "H", "i", "g", "h", " ">>, <<"b", "o", "t", "h">>, <<"W", "e", "C", "h", "a", "t", " ", "m", "i", "n", "i", " ", "p", "r", "o", "g", "r", "a", "m">>, <<"2", " ", "W", "e", "e", "k", "s">>, <<"s", "o", "o", "n">> }

InitNormalize ==
    /\ InitPure
    /\ \E be \in RawEnumValues, cl \in RawEnumValues, sv \in RawEnumValues,
          pf \in RawEnumValues :
          input = [kind |-> "idea",
                   value |-> [build_effort |-> be, competition_level |-> cl,
                              estimated_search_volume |-> sv, product_form |-> pf]]

\* part_009:731-734
ApplyNormalizers ==
    /\ input.kind = "idea" /\ output = NoValue
    /\ output' = [kind |-> "enums", value |-> NormalizedEnums(input.value)]
    /\ UNCHANGED input
    /\ UNCHANGED nonPureVars

NextNormalize == ApplyNormalizers

SpecNormalize == InitNormalize /\ [][NextNormalize]_vars

(***************************************************************************)
(* the window of an opportunity, analyst/index.ts:652-659                  *)
(***************************************************************************)
\* assessment.window_days_remaining as the model gave it, or not given
NoEstimate == [given |-> FALSE, days |-> 0]

DaysEstimate(d) == [given |-> TRUE, days |-> d]

\* bound of the model: the largest estimate of the days remaining
MaxWindowDays == 35

\* the fallback of analyst/index.ts:653
DEFAULT_WINDOW_DAYS == 14

\* analyst/index.ts:655
CLOSING_DAYS == 3

\* analyst/index.ts:656
UPCOMING_DAYS == 30

\* 24 * 60 * 60 seconds (analyst/index.ts:659 counts in milliseconds; the
\* instants of the window are kept in seconds)
WINDOW_DAY_S == 86400

\* assessment.window_days_remaining || 14: undefined and 0 are both falsy
WindowDays(e) == IF ~e.given \/ e.days = 0 THEN DEFAULT_WINDOW_DAYS ELSE e.days

\* analyst/index.ts:654-656
WindowStatus(windowDays) ==
    IF windowDays <= CLOSING_DAYS THEN "closing"
    ELSE IF windowDays > UPCOMING_DAYS THEN "upcoming"
    ELSE "open"

\* analyst/index.ts:659
WindowClosesAt(t, windowDays) == t + windowDays * WINDOW_DAY_S

\* the instants Date.now() is read at, in seconds
WindowInstants == {0, 1, WINDOW_DAY_S}

InitWindow ==
    /\ InitPure
    /\ \E e \in {NoEstimate} \cup {DaysEstimate(d) : d \in 0..MaxWindowDays},
          t \in WindowInstants :
          input = [kind |-> "estimate", value |-> e, at |-> t]

\* analyst/index.ts:653-659, 673-674
ApplyWindow ==
    /\ input.kind = "estimate" /\ output = NoValue
    /\ LET windowDays == WindowDays(input.value)
       IN  output' = [kind |-> "window",
                      window_status |-> WindowStatus(windowDays),
                      window_closes_at |-> WindowClosesAt(input.at, windowDays)]
    /\ UNCHANGED input
    /\ UNCHANGED nonPureVars

NextWindow == ApplyWindow

SpecWindow == InitWindow /\ [][NextWindow]_vars

(***************************************************************************)
(* aiGenerateJson on the text of a reply, client.ts:244-260                *)
(***************************************************************************)
\* a reply is put together from what precedes the JSON, the JSON and what
\* follows it
ReplyPrefixes ==
    { <<>>, <<"H", "e", "r", "e", ":", " ">>, Fence \o <<"j","s","o","n","\n">>, Fence \o <<"\n">> }

ReplyCores ==
    { TextObject,
      <<"{", "\"", "a", "\"", ":", "{", "\"", "b", "\"", ":", "1", "}", "}">>,
      <<"{", "}">>,
      <<"S", "o", "r", "r", "y">>,
      <<"{", "\"", "a", "\"", ":">> }

ReplySuffixes ==
    { <<>>, <<"\n">> \o Fence, <<" ", "t", "h", "a", "n", "k", "s">>, <<" ", "s", "e", "e", " ", "{", "x", "}">>, <<" ", "}">> }

InitParse ==
    /\ InitPure
    /\ \E p \in ReplyPrefixes, core \in ReplyCores, s \in ReplySuffixes :
          input = [kind |-> "text", value |-> p \o core \o s]

\* client.ts:245-260
ApplyParseReply ==
    /\ input.kind = "text" /\ output = NoValue
    /\ output' = ParseReply(input.value)
    /\ UNCHANGED input
    /\ UNCHANGED nonPureVars

NextParse == ApplyParseReply

SpecParse == InitParse /\ [][NextParse]_vars

(***************************************************************************)
(* Deriver runs on a store with more opportunities than a run selects      *)
(***************************************************************************)
\* repeated "x": the rows of the queue differ in their slugs
Mark(k) == [i \in 1..k |-> "x"]

\* the k-th opportunity of the queue, by descending score: 89, 88, ...
QueueOpp(k) ==
    [StoredOpp EXCEPT !.score = 9000 - 100 * k, !.slug = @ \o Mark(k)]

\* a derivative of the k-th opportunity, stored by an earlier run
QueueDerivative(k) ==
    [StoredDerivative("derived", 0 - 100) EXCEPT !.opportunity_id = k, !.slug = @ \o Mark(k)]

\* as many opportunities as a run selects, or one more; derivatives for all
\* of the selected ones, or for all but the last
InitDeriverQueue ==
    /\ now = 0
    /\ cost_tracking = <<>>
    /\ signals = [id \in Range(SignalIds) |-> "analyzed"]
    /\ raw_data = [id \in Range(SignalIds) |-> NoRawData]
    /\ \E n \in {DERIVER_MAX_PER_RUN, DERIVER_MAX_PER_RUN + 1} :
          opportunities = [k \in 1..n |-> QueueOpp(k)]
    /\ \E m \in {DERIVER_MAX_PER_RUN - 1, DERIVER_MAX_PER_RUN} :
          derived_products = [k \in 1..m |-> QueueDerivative(k)]
    /\ competitive_checks = <<>>
    /\ keyword_validations = <<>>
    /\ runs = [r \in Triggers |-> IdleRun]
    /\ nruns = 0
    /\ ai_api_keys = PoolOverlap
    /\ IdleRouter
    /\ InitNoGroup
    /\ InitNoPure

\* the schedule fires again and again (worker/index.ts:41-93): the runs are
\* not counted
StartRunAgain(r, stages) ==
    /\ runs[r].pc = "idle"
    /\ \E st \in stages :
          runs' = [runs EXCEPT ![r] = [IdleRun EXCEPT !.stage = st, !.pc = "entry"]]
    /\ UNCHANGED <<keyword_validations, now, cost_tracking, signals, raw_data, opportunities, derived_products,
                   competitive_checks, nruns>>
    /\ UNCHANGED nonStageVars

\* the cron schedule starts one Deriver run after another
NextDeriverQueue ==
    \/ StartRunAgain("cron", {"deriver"})
    \/ EntryBudget("cron")
    \/ ItemBudget("cron")
    \/ FinishRun("cron")
    \/ DeriverStep("cron")

\* every run that is started runs on, and the schedule keeps starting runs
SpecDeriverQueue ==
    InitDeriverQueue /\ [][NextDeriverQueue]_vars /\ WF_vars(NextDeriverQueue)

(***************************************************************************)
(* The two gates, run again and again on one derivative                    *)
(***************************************************************************)
\* the derivative the gates start on: stored by runDeriver with a
\* competition level and two keywords, with a competition level and no
\* keyword, or with neither a competition level nor a keyword missing
QueuedDerivatives ==
    { StoredWithCompetition,
      [StoredWithCompetition EXCEPT !.target_keywords = <<>>],
      StoredDerivative("derived", 0 - 100) }

InitGateQueue ==
    /\ now = 0
    /\ cost_tracking = <<>>
    /\ signals = [id \in Range(SignalIds) |-> "analyzed"]
    /\ raw_data = [id \in Range(SignalIds) |-> NoRawData]
    /\ opportunities = <<StoredOpp>>
    /\ \E d \in QueuedDerivatives : derived_products = <<d>>
    /\ competitive_checks = <<>>
    /\ keyword_validations = <<>>
    /\ runs = [r \in Triggers |-> IdleRun]
    /\ nruns = 0
    /\ ai_api_keys = PoolOverlap
    /\ IdleRouter
    /\ InitNoGroup
    /\ InitNoPure

\* the cron schedule starts runs of the two gates, one after another
NextGateQueue ==
    \/ StartRunAgain("cron", {"competitive", "keyword"})
    \/ EntryBudget("cron")
    \/ ItemBudget("cron")
    \/ FinishRun("cron")
    \/ CompetitiveStep("cron")
    \/ KeywordStep("cron")

\* a run that is started runs on, and the schedule starts each of the two
\* gates again and again (worker/index.ts:41-93)
SpecGateQueue ==
    /\ InitGateQueue /\ [][NextGateQueue]_vars
    /\ WF_vars(NextGateQueue)
    /\ SF_vars(StartRunAgain("cron", {"competitive"}))
    /\ SF_vars(StartRunAgain("cron", {"keyword"}))

(***************************************************************************)
(* Part 6: properties                                                      *)
(***************************************************************************)
\* position of key k in a candidate list
Pos(list, k) == CHOOSE i \in 1..Len(list) : list[i] = k

\* the state part of C1: the order of the candidates and of the attempts, one
\* success and one return per call
C1_Inv ==
    \A c \in Callers :
        LET cr == calls[c]
        IN  /\ \A i, j \in 1..Len(cr.list) : i < j => cr.loadedErr[i] <= cr.loadedErr[j]
            /\ \A i \in 1..Len(cr.attempts) : cr.attempts[i] \in Range(cr.list)
            /\ \A i, j \in 1..Len(cr.attempts) :
                  i < j => Pos(cr.list, cr.attempts[i]) < Pos(cr.list, cr.attempts[j])
            /\ cr.pc = "inflight" => cr.list[cr.idx] = cr.attempts[Len(cr.attempts)]
            /\ cr.nSuccess <= 1
            /\ cr.nReturn = (IF cr.pc = "done" THEN 1 ELSE 0)
            /\ (cr.pc = "done" /\ cr.nSuccess = 1) => cr.result = ParseReply(cr.text)

\* the step part of C1: after a success the call goes on to the bookkeeping
\* and the return, without another attempt
C1_Step ==
    \A c \in Callers :
        (calls[c].nSuccess = 1 /\ calls'[c].pc # "idle")
            => /\ calls'[c].attempts = calls[c].attempts
               /\ calls'[c].pc \in {"okRead", "okWrite", "costRead", "costWrite", "done"}

\* C1: within one aiGenerateText call the candidates are attempted one at a
\* time, in the ascending error_count order the call loaded them in; once an
\* attempt has succeeded the call makes no further attempt; a call has at
\* most one successful attempt and returns its result exactly once.
C1_FirstSuccessWins == []C1_Inv /\ [][C1_Step]_vars

\* a call on three candidates that failed on the first and succeeded on the
\* second, leaving the third untried
C1_Witness ==
    \E c \in Callers :
        /\ calls[c].pc = "done"
        /\ Len(calls[c].list) = 3
        /\ Len(calls[c].attempts) = 2
        /\ calls[c].attempts = SubSeq(calls[c].list, 1, 2)
        /\ calls[c].nSuccess = 1

\* caller c starts an attempt in this step
C2_AttemptStart(c) ==
    /\ calls'[c].pc = "inflight"
    /\ calls'[c].attempts # calls[c].attempts

\* C2: after a quota-class error on a (provider, model) pair at time t, no
\* call starts an attempt on that pair before t + 60 s.
C2_NoAttemptInCooldown ==
    [][\A c \in Callers :
          C2_AttemptStart(c) =>
              LET pk == KeyPair(ai_api_keys, calls'[c].attempts[Len(calls'[c].attempts)])
              IN  \/ lastQuotaError[pk] = -1
                  \/ now >= lastQuotaError[pk] + QUOTA_CACHE_TTL_MS]_vars

\* C3: aiGenerateText never throws; with an empty pool, or with every
\* candidate in cooldown or failed, the call returns null; aiGenerateJson
\* returns null when the text is empty or does not parse.
C3_NeverThrows ==
    \A c \in Callers :
        LET cr == calls[c]
        IN  /\ ~cr.threw
            /\ cr.pc = "done" =>
                  /\ cr.nSuccess = 0 => cr.result = NullResult
                  /\ (cr.nSuccess = 1 /\ cr.text \in {TextEmpty, TextJunk})
                        => cr.result = NullResult
                  /\ (cr.nSuccess = 1 /\ cr.text \in {TextObject, TextFenced})
                        => cr.result = [kind |-> "json", src |-> TextObject]

\* a call on three candidates of which one was in cooldown and the other two
\* failed, one of them by timeout
C3_Witness ==
    \E c \in Callers :
        /\ calls[c].pc = "done"
        /\ Len(calls[c].list) = 3
        /\ Len(calls[c].attempts) = 2
        /\ calls[c].nSuccess = 0
        /\ calls[c].result = NullResult
        /\ now = QUOTA_CACHE_TTL_MS

\* today's cost, added up over the rows of the ledger
RECURSIVE SpentOn(_, _)
SpentOn(tbl, date) ==
    IF Len(tbl) = 0 THEN 0
    ELSE (IF tbl[1].date = date THEN tbl[1].cost_usd ELSE 0) + SpentOn(Tail(tbl), date)

\* C4: isDailyBudgetExceeded returns exceeded = true whenever today's summed
\* cost has reached or passed the limit (spent 5.00 or 5.01 against the limit
\* 5.00), and a stage run that has observed exceeded = true, at its entry or
\* before an item, invokes the Router no more.
C4_BudgetStopsRouterCalls ==
    /\ SpentOn(cost_tracking, DateOf(now)) >= DailyBudgetLimit
          => isDailyBudgetExceeded(cost_tracking, now).exceeded
    /\ \A r \in Triggers :
          /\ runs[r].aiAfterExceeded = 0
          /\ (runs[r].lastBudget.exceeded /\ runs[r].pc # "idle") => runs[r].pc \notin {"ai"}
          /\ runs[r].lastBudget # NoBudget =>
                (runs[r].lastBudget.exceeded <=>
                    runs[r].lastBudget.spent >= runs[r].lastBudget.limit)

\* a run that invoked the Router, then found the budget spent before its next
\* item, and stopped
C4_Witness ==
    \E r \in Triggers :
        /\ runs[r].sawExceeded
        /\ runs[r].aiCalls >= 1
        /\ runs[r].lastBudget.spent >= DailyBudgetLimit
        /\ runs[r].pc = "done"

\* C5, as stated: for an assessment whose business_viability is below 30 or
\* missing no opportunity is stored, and the signal it was made for is marked
\* evaluated.
C5_GateMarksSignalEvaluated ==
    /\ \A k \in 1..Len(opportunities) :
          /\ opportunities[k].business_viability # Missing
          /\ opportunities[k].business_viability >= VIABILITY_MIN
    /\ \A r \in Triggers : \A id \in runs[r].gated : signals[id] = "evaluated"

\* the stored score of a row is below 50
ScoreBelow50(row) ==
    \/ row.score < SCORE_THRESHOLD
    \/ (row.score = SCORE_THRESHOLD /\ row.low)

\* C6: every stored opportunity with a score below 50 has status 'rejected'
\* and a decision reason that embeds the score (to one decimal); every one
\* with a score of 50 or more has status 'evaluated'; none has a
\* business_viability below 30 with a status other than 'rejected'.
C6_StatusFollowsScore ==
    \A k \in 1..Len(opportunities) :
        LET row == opportunities[k]
        IN  /\ ScoreBelow50(row) =>
                  /\ row.status = "rejected"
                  /\ row.decision_reason =
                        [text |-> "Score too low: ", tenths |-> (row.score + 5) \div 10]
            /\ ~ScoreBelow50(row) => row.status = "evaluated"
            /\ (row.business_viability = Missing \/ row.business_viability < VIABILITY_MIN)
                  => row.status = "rejected"

\* a store with an opportunity of score exactly 50 and business_viability
\* exactly 30, stored as 'evaluated', and one whose score the floating-point
\* sum left just below 50, stored as 'rejected' with the reason "50.0"
C6_Witness ==
    /\ \E k \in 1..Len(opportunities) :
          /\ opportunities[k].score = SCORE_THRESHOLD
          /\ opportunities[k].business_viability = VIABILITY_MIN
          /\ opportunities[k].status = "evaluated"
    /\ \E k \in 1..Len(opportunities) :
          /\ opportunities[k].low
          /\ opportunities[k].status = "rejected"
          /\ opportunities[k].decision_reason.tenths = 500

\* the topic words of a stored opportunity
RowWords(row) == extractTopicWords(row.title \o <<" ">> \o row.target_keyword)

\* Jaccard similarity of two word sets >= 0.35
C7_Similar(a, b) ==
    /\ a # {} /\ b # {}
    /\ 100 * Cardinality(a \cap b) >= 35 * Cardinality(a \cup b)

\* this step inserts an opportunity
C7_Insert == Len(opportunities') = Len(opportunities) + 1

\* C7, as stated: a candidate whose topic words have Jaccard similarity
\* >= 0.35 with those of an opportunity that already exists is not stored.
C7_NoSimilarToExisting ==
    [][C7_Insert =>
          \A k \in 1..Len(opportunities) :
              ~C7_Similar(RowWords(opportunities'[Len(opportunities')]),
                          RowWords(opportunities[k]))]_vars

\* C7, amended: a candidate is not stored when its topic words have Jaccard
\* similarity >= 0.35 with those of one of the (at most 100, most recent)
\* opportunities the store held when the run loaded them at its start, or of
\* an opportunity the same run has inserted; opportunities another run
\* inserts after the load, and older ones beyond the 100, are not compared.
C7_NoSimilarToLoadedOrOwn ==
    [][C7_Insert =>
          LET new == opportunities'[Len(opportunities')]
              run == runs[new.by]
          IN  \A k \in 1..Len(opportunities) :
                  (\/ (k <= run.loadedCount /\ k > run.loadedCount - OPP_LOAD_LIMIT)
                   \/ opportunities[k].by = new.by)
                      => ~C7_Similar(RowWords(new), RowWords(opportunities[k]))]_vars

\* a run that loaded no opportunity, inserted one, and then skipped a
\* candidate as a duplicate of it
C7_Witness ==
    \E r \in Triggers :
        /\ runs[r].stage = "analyst"
        /\ runs[r].loadedCount = 0
        /\ runs[r].dupSkipped >= 1
        /\ \E k \in 1..Len(opportunities) : opportunities[k].by = r

\* the signals of the batch at positions i and j are in one group
SameGroup(i, j) ==
    \E g \in 1..Len(groups) :
        /\ \E m \in 1..Len(groups[g]) : groups[g][m].id = batch[i].id
        /\ \E m \in 1..Len(groups[g]) : groups[g][m].id = batch[j].id

\* the positions in the batch of the signals that open a group
Openers == {i \in 1..Len(batch) : \E g \in 1..Len(groups) : groups[g][1].id = batch[i].id}

\* Jaccard similarity of the topic words of two signals >= 0.4
SimilarSignals(a, b) ==
    LET wa == extractTopicWords(SignalText(a))
        wb == extractTopicWords(SignalText(b))
    IN  /\ wa # {} /\ wb # {}
        /\ 10 * Cardinality(wa \cap wb) >= 4 * Cardinality(wa \cup wb)

\* C8, as stated: any two signals of a batch whose topic-word similarity is
\* >= 0.4, or whose normalized source URLs are equal, are in the same group.
C8_SimilarPairsShareGroup ==
    grouped =>
        \A i, j \in 1..Len(batch) :
            (\/ SimilarSignals(batch[i], batch[j])
             \/ NormalizeUrl(batch[i].source_url) = NormalizeUrl(batch[j].source_url))
                => SameGroup(i, j)

\* signal j matches the opener i: similarity >= 0.4, or the same non-empty
\* normalized source URL
MatchesOpener(i, j) ==
    \/ SimilarSignals(batch[i], batch[j])
    \/ /\ NormalizeUrl(batch[i].source_url) # <<>>
       /\ NormalizeUrl(batch[i].source_url) = NormalizeUrl(batch[j].source_url)

\* C8, amended: a signal is compared with the openers of the groups only.
\* It is in the group of the earliest opener before it that it matches
\* (similarity >= 0.4, or the same non-empty normalized source URL), and it
\* opens a group of its own exactly when it matches no opener before it.
C8_JoinsEarliestMatchingOpener ==
    grouped =>
        \A j \in 1..Len(batch) :
            LET before == {i \in Openers : i < j /\ MatchesOpener(i, j)}
            IN  IF before = {} THEN j \in Openers
                ELSE /\ j \notin Openers
                     /\ SameGroup(CHOOSE i \in before : \A k \in before : i <= k, j)

\* a batch in which a signal is similar to a member of the first group that
\* is not its opener, and opens a group of its own
C8_Witness ==
    /\ grouped
    /\ Len(groups) = 2
    /\ \E i, j \in 1..Len(batch) : i < j /\ SameGroup(i, j)
    /\ \E i, j \in 1..Len(batch) :
          /\ i < j
          /\ i \notin Openers
          /\ SimilarSignals(batch[i], batch[j])
          /\ j \in Openers

\* C9: groupSignalsByTopic returns a partition of its input: every signal of
\* the batch is in exactly one group, at one place; no group is empty; no
\* group holds a signal that is not of the batch; the groups are in the
\* order in which their opening members stand in the batch.
C9_GroupsPartitionBatch ==
    grouped =>
        /\ \A i \in 1..Len(batch) :
              Cardinality({<<g, m>> \in (1..Len(groups)) \X (1..Len(batch)) :
                              m <= Len(groups[g]) /\ groups[g][m] = batch[i]}) = 1
        /\ \A g \in 1..Len(groups) :
              /\ Len(groups[g]) > 0
              /\ \A m \in 1..Len(groups[g]) : groups[g][m] \in Range(batch)
        /\ \A g, h \in 1..Len(groups) :
              g < h => \A i, j \in 1..Len(batch) :
                          (batch[i] = groups[g][1] /\ batch[j] = groups[h][1]) => i < j

\* a batch of three signals in two groups, one of them held together by
\* the source URL alone
C9_Witness ==
    /\ grouped
    /\ Len(batch) = 3
    /\ Len(groups) = 2
    /\ \E i, j \in 1..Len(batch) :
          i < j /\ SameGroup(i, j) /\ ~SimilarSignals(batch[i], batch[j])

\* keyword k of the idea and keyword ek of a derivative contain one another,
\* letter case aside
C10_Contains(k, ek) ==
    \/ Includes(ToLowerCase(ek), ToLowerCase(k))
    \/ Includes(ToLowerCase(k), ToLowerCase(ek))

\* the derivative row stands in the way of an idea with the keywords kw at
\* time at (ms): not rejected, created in the trailing 30 days, and at least
\* half of kw overlapped by its keywords
C10_Blocks(row, kw, at) ==
    /\ row.status # "rejected"
    /\ row.created_at + THIRTY_DAYS_S >= (at + 999) \div 1000
    /\ 2 * Cardinality({i \in 1..Len(kw) :
                           \E m \in 1..Len(row.target_keywords) :
                               C10_Contains(kw[i], row.target_keywords[m])}) >= Len(kw)

\* C10: the Deriver stores an idea only if, when the idea was checked, the
\* store held no derivative that is not rejected, was created in the
\* trailing 30 days and overlaps at least half of the idea's keywords; the
\* derivatives the run has stored before are among those the check saw.
C10_NoOverlapWithRecent ==
    [][Len(derived_products') = Len(derived_products) + 1 =>
          LET new  == derived_products'[Len(derived_products')]
              seen == runs[new.by].checked
          IN  /\ \A k \in 1..Len(seen.tbl) : ~C10_Blocks(seen.tbl[k], new.target_keywords, seen.at)
              /\ \A k \in 1..Len(derived_products) :
                    derived_products[k].by = new.by
                        => k <= Len(seen.tbl) /\ seen.tbl[k] = derived_products[k]]_vars

\* a Deriver run that stored the idea with the keywords "seedance tutorial"
\* and "seedance guide" and then skipped an idea of the same reply, half of
\* whose keywords the stored one overlaps
C10_Witness ==
    \E r \in Triggers :
        /\ runs[r].stage = "deriver"
        /\ runs[r].dupSkipped >= 1
        /\ \E k \in 1..Len(derived_products) :
              /\ derived_products[k].by = r
              /\ derived_products[k].title = IdeaTutorial.title

(***************************************************************************)
(* the validation gates                                                    *)
(***************************************************************************)
\* the volume class of a total suggestion count
VolumeClass(total) ==
    IF total >= 15 THEN <<"h", "i", "g", "h">>
    ELSE IF total >= 8 THEN <<"m", "e", "d", "i", "u", "m">>
    ELSE IF total >= 3 THEN <<"l", "o", "w">>
    ELSE <<"n", "o", "n", "e">>

\* the decision runKeywordValidation has computed for the derivative it
\* handled last: the volume class of the total, and whether to reject
KeywordDecisionComputed ==
    \A r \in Triggers :
        (runs[r].stage = "keyword" /\ runs[r].last # NoCur) =>
            LET l == runs[r].last
            IN  /\ l.volume = VolumeClass(l.total)
                /\ l.total = 2 => KeywordShouldReject(l.volume, l.difficulty)
                /\ l.total = 16 => ~KeywordShouldReject(l.volume, l.difficulty)

\* C11: once Keyword Validation has handled a derivative, the volume is the
\* class of the total suggestion count (high from 15, medium from 8, low
\* from 3, none below), and the derivative is 'rejected' if the volume is none,
\* or low with difficulty hard, and 'validated' otherwise.
C11_VolumeDecidesStatus ==
    \A r \in Triggers :
        (runs[r].stage = "keyword" /\ runs[r].last # NoCur) =>
            LET l == runs[r].last
            IN  /\ l.volume = VolumeClass(l.total)
                /\ derived_products[l.id].status =
                       IF l.volume = <<"n", "o", "n", "e">> \/ (l.volume = <<"l", "o", "w">> /\ l.difficulty = "hard")
                       THEN "rejected" ELSE "validated"

\* C12: once Competitive Check has handled a derivative, the derivative is
\* 'rejected' if the difficulty is very_hard, or there are 7 or more big
\* sites and no content gap; otherwise its status is still 'derived' and its
\* competition level is the one of the difficulty found.
C12_CompetitionDecidesStatus ==
    \A r \in Triggers :
        (runs[r].stage = "competitive" /\ runs[r].last # NoCur) =>
            LET l   == runs[r].last
                row == derived_products[l.id]
            IN  IF \/ l.res.analysis.difficulty = "very_hard"
                   \/ (l.res.bigCount >= 7 /\ ~l.res.analysis.content_gap_found)
                THEN row.status = "rejected"
                ELSE /\ row.status = "derived"
                     /\ row.competition_level =
                            CompetitionLevel(l.res.analysis.difficulty)

\* C13: a derivative that Keyword Validation has examined, or that is
\* 'validated', has a recorded competitive check.
C13_CheckedBeforeValidation ==
    \A id \in 1..Len(derived_products) :
        (derived_products[id].nKeyword > 0 \/ derived_products[id].status = "validated")
            => CountChecks(competitive_checks, id) > 0

\* C14: with the runs made one after another, no derivative is
\* competitively checked more than once or keyword-validated more than once.
C14_AtMostOneCheckOfAKind ==
    \A id \in 1..Len(derived_products) :
        /\ derived_products[id].nCompetitive <= 1
        /\ derived_products[id].nKeyword <= 1

\* C15: the seven weights add up to 1 (100 hundredths), and for a breakdown
\* whose dimensions are left out or between 0 and 100 the weighted score is
\* between 0 and 100 (10000 hundredths of a point).
C15_ScoreWithinRange ==
    /\ WeightDevelopmentSpeed + WeightMonetization + WeightSeoPotential
         + WeightBusinessViability + WeightTimeSensitivity + WeightLongtailValue
         + WeightNovelty = 100
    /\ (/\ output.kind = "score"
        /\ \A k \in DOMAIN input.value : input.value[k] \in {Missing} \cup (0..100))
          => (output.value >= 0 /\ output.value <= 100 * 100)

\* the score of a breakdown with every dimension at 100 but one left out
C15_Witness ==
    /\ output.kind = "score"
    /\ input.value.novelty = Missing
    /\ \A k \in DOMAIN input.value \ {"novelty"} : input.value[k] = 100
    /\ output.value = 9000

\* C16: each of the four normalizers returns a member of its closed set,
\* hands a member through unchanged, and returns its default ('1d',
\* 'unknown', 'unknown', 'website') for a text no rule matches; "half day"
\* is effort '4h' and "Hard" is competition 'high'.  The record handed to the
\* insert has the four fields in their sets.
C16_NormalizersClosed ==
    output.kind = "enums" =>
        LET raw == input.value
            out == output.value
        IN  /\ out.build_effort \in Range(VALID_BUILD_EFFORTS)
            /\ out.competition_level \in Range(VALID_COMPETITION_LEVELS)
            /\ out.estimated_search_volume \in Range(VALID_SEARCH_VOLUMES)
            /\ out.product_form \in Range(VALID_PRODUCT_FORMS)
            /\ raw.build_effort \in Range(VALID_BUILD_EFFORTS)
                  => out.build_effort = raw.build_effort
            /\ raw.competition_level \in Range(VALID_COMPETITION_LEVELS)
                  => out.competition_level = raw.competition_level
            /\ raw.estimated_search_volume \in Range(VALID_SEARCH_VOLUMES)
                  => out.estimated_search_volume = raw.estimated_search_volume
            /\ raw.product_form \in Range(VALID_PRODUCT_FORMS)
                  => out.product_form = raw.product_form
            /\ raw.build_effort = <<"s", "o", "o", "n">> => out.build_effort = <<"1", "d">>
            /\ raw.competition_level = <<"s", "o", "o", "n">> => out.competition_level = <<"u", "n", "k", "n", "o", "w", "n">>
            /\ raw.estimated_search_volume = <<"s", "o", "o", "n">>
                  => out.estimated_search_volume = <<"u", "n", "k", "n", "o", "w", "n">>
            /\ raw.product_form = <<"s", "o", "o", "n">> => out.product_form = <<"w", "e", "b", "s", "i", "t", "e">>
            /\ raw.build_effort = <<"h", "a", "l", "f", " ", "d", "a", "y">> => out.build_effort = <<"4", "h">>
            /\ raw.competition_level = <<"H", "a", "r", "d">> => out.competition_level = <<"h", "i", "g", "h">>

\* "half day", "Hard" and an unmatched text have been normalized
C16_Witness ==
    /\ output.kind = "enums"
    /\ input.value.build_effort = <<"h", "a", "l", "f", " ", "d", "a", "y">>
    /\ input.value.competition_level = <<"H", "a", "r", "d">>
    /\ input.value.estimated_search_volume = <<"s", "o", "o", "n">>
    /\ input.value.product_form = <<"s", "o", "o", "n">>
    /\ output.value.build_effort = <<"4", "h">>

\* the slug runAnalyst computes for the assessment a run is working on
CurSlug(r) ==
    IF runs[r].cur.slug # <<>> THEN runs[r].cur.slug ELSE slugify(runs[r].cur.title)

SlugExists(slug) == \E k \in 1..Len(opportunities) : opportunities[k].slug = slug

SlugsUnique ==
    \A k1, k2 \in 1..Len(opportunities) :
        opportunities[k1].slug = opportunities[k2].slug => k1 = k2

\* a step keeps every stored opportunity as it is
OpportunitiesKept ==
    /\ Len(opportunities') >= Len(opportunities)
    /\ \A k \in 1..Len(opportunities) : opportunities'[k] = opportunities[k]

\* the run at the slug check finds the slug stored, and goes on to its next
\* item, or to its end, with the table as it was
ExistingSlugSkipped(r) ==
    (/\ runs[r].stage = "analyst" /\ runs[r].pc = "slugSelect"
     /\ runs'[r] # runs[r]
     /\ SlugExists(CurSlug(r)))
        => /\ opportunities' = opportunities
           /\ runs'[r].pc \in {"itemBudget", "finalMark"}
           /\ runs'[r].idx = runs[r].idx + 1

\* C17: with Analyst runs of the cron and the manual trigger overlapping, no
\* two opportunities have the same slug, no step changes a stored
\* opportunity, and a run whose assessment has a stored slug skips it and
\* goes on.
C17_SlugsStayUnique ==
    /\ []SlugsUnique
    /\ [][OpportunitiesKept /\ \A r \in Triggers : ExistingSlugSkipped(r)]_vars

\* a run is about to insert an opportunity whose slug the other run, which
\* is still in progress, has stored since this run checked the slug
C17_Witness ==
    \E r1, r2 \in Triggers :
        /\ r1 # r2
        /\ runs[r1].stage = "analyst" /\ runs[r1].pc = "insert"
        /\ runs[r2].stage = "analyst" /\ runs[r2].pc \notin {"idle", "done"}
        /\ \E k \in 1..Len(opportunities) :
              /\ opportunities[k].slug = CurSlug(r1)
              /\ opportunities[k].by = r2

\* the cost table after one more call of (date, agentType, model) with the
\* given token counts: the record of the key counts one call more and sums
\* the tokens and the cost, and is created when there is none
CostAfterCall(tbl, date, agentType, model, tokensInput, tokensOutput) ==
    LET S == CostRowsOf(tbl, date, agentType, model)
        costUsd == CostOf(model, tokensInput, tokensOutput)
    IN  IF S = {}
        THEN Append(tbl, [date |-> date, agent_type |-> agentType, llm_model |-> model,
                          api_calls |-> 1, tokens_input |-> tokensInput,
                          tokens_output |-> tokensOutput, cost_usd |-> costUsd])
        ELSE [i \in 1..Len(tbl) |->
                 IF i \in S
                 THEN [tbl[i] EXCEPT !.api_calls = @ + 1,
                                     !.tokens_input = @ + tokensInput,
                                     !.tokens_output = @ + tokensOutput,
                                     !.cost_usd = @ + costUsd]
                 ELSE tbl[i]]

CostKeysUnique ==
    \A i, j \in 1..Len(cost_tracking) :
        (/\ cost_tracking[i].date = cost_tracking[j].date
         /\ cost_tracking[i].agent_type = cost_tracking[j].agent_type
         /\ cost_tracking[i].llm_model = cost_tracking[j].llm_model) => i = j

\* the step in which trackCost writes
TrackCostCounts(cl) ==
    (calls[cl].pc = "costWrite" /\ calls'[cl] # calls[cl]) =>
        \E usage \in Usages :
            cost_tracking' =
                CostAfterCall(cost_tracking, calls[cl].tcDate, calls[cl].agentType,
                              KeyModel(ai_api_keys[calls[cl].list[calls[cl].idx]]),
                              usage.promptTokens, usage.completionTokens)

\* C18: with the calls of trackCost made one after another, the table starts
\* empty, has at most one record per (date, agent, model), every call adds one
\* to api_calls and its tokens and cost to the sums of the record of its key,
\* and nothing else changes the table.
C18_TrackCostAccumulates ==
    /\ []CostKeysUnique
    /\ [][/\ \A cl \in Callers : TrackCostCounts(cl)
          /\ (\A cl \in Callers : calls[cl].pc # "costWrite")
                => cost_tracking' = cost_tracking]_vars

\* a record that two calls have been counted into
C18_Witness ==
    \E i \in 1..Len(cost_tracking) :
        /\ cost_tracking[i].api_calls = 2
        /\ cost_tracking[i].tokens_input = 1000
        /\ cost_tracking[i].tokens_output = 500

\* C19: no exception leaves a stage function: a run never ends with items
\* of its batch left because the handling of one item threw.
C19_NoRunThrows ==
    \A r \in Triggers : runs[r].pc # "thrown"

\* C20: with Competitive Check and Keyword Validation runs of the cron and
\* the manual trigger interleaved, the status of a derivative changes only
\* from 'derived', and only to 'rejected' or 'validated': it changes at most
\* once, and never between 'rejected' and 'validated'.
C20_StatusChangesAtMostOnce ==
    [][\A id \in 1..Len(derived_products) :
          derived_products'[id].status # derived_products[id].status
              => /\ derived_products[id].status = "derived"
                 /\ derived_products'[id].status \in {"rejected", "validated"}]_vars

\* two runs in progress, one of each gate, have both written their decision
\* for the same derivative: Competitive Check to reject it, Keyword
\* Validation to validate it
C20_Witness ==
    \E r1, r2 \in Triggers :
        /\ runs[r1].stage = "competitive" /\ runs[r1].last # NoCur
        /\ runs[r2].stage = "keyword" /\ runs[r2].last # NoCur
        /\ runs[r1].last.id = runs[r2].last.id
        /\ ShouldReject(runs[r1].last.res)
        /\ ~KeywordShouldReject(runs[r2].last.volume, runs[r2].last.difficulty)

(***************************************************************************)
(* the Deriver's selection, the Router's bookkeeping, the gates' budget     *)
(***************************************************************************)
\* C21: with the runs made one after another, whenever runDeriver asks for
\* the derivatives of an opportunity, the opportunity is 'evaluated', has a
\* score of at least 55 and owns no derived product: an opportunity that owns
\* one is not derived from again.
C21_DerivesOnlyFresh ==
    [][\A r \in Triggers :
          (runs[r].stage = "deriver" /\ runs[r].pc = "ai" /\ runs'[r] # runs[r]) =>
              LET o == runs[r].items[runs[r].idx]
              IN  /\ opportunities[o].status = "evaluated"
                  /\ opportunities[o].score >= 55 * 100
                  /\ \A k \in 1..Len(derived_products) :
                        derived_products[k].opportunity_id # o]_vars

\* a Deriver run has ended without a request, the budget not exceeded, on a
\* store whose only opportunity of score 55 or more owns a derivative of an
\* earlier run
C21_Witness ==
    \E r \in Triggers :
        /\ runs[r].stage = "deriver" /\ runs[r].pc = "done"
        /\ runs[r].aiCalls = 0 /\ ~runs[r].sawExceeded
        /\ \E o \in 1..Len(opportunities) :
              /\ opportunities[o].status = "evaluated"
              /\ opportunities[o].score >= 55 * 100
              /\ \E k \in 1..Len(derived_products) :
                    /\ derived_products[k].opportunity_id = o
                    /\ derived_products[k].by = r

\* the active keys whose (provider, model) pair is not in cooldown
EligibleKeys ==
    {k \in KeyIds : /\ ai_api_keys[k].is_active
                    /\ ~isProviderExhausted(exhaustedProviderCache,
                                            KeyPair(ai_api_keys, k), now)}

\* the keys of a set with fewer than three keys of a lower error count
ThreeLowest(keys) ==
    {k \in keys :
        Cardinality({m \in keys :
            ai_api_keys[m].error_count < ai_api_keys[k].error_count}) < 3}

\* the keys the call of cl, which is about to load the keys, can attempt first
PossibleFirstAttempts(cl) ==
    {k \in KeyIds :
        \E list \in loadAllKeys(ai_api_keys) :
            LoopFrom([calls[cl] EXCEPT !.list = list], 1,
                     exhaustedProviderCache, now).call.attempts = <<k>>}

\* C22: when a call starts with three or more eligible candidates, each of
\* the three with the lowest error counts can be the one attempted first.
C22_AnyOfThreeCanStart ==
    \A cl \in Callers :
        (calls[cl].pc = "load" /\ Cardinality(EligibleKeys) >= 3)
            => ThreeLowest(EligibleKeys) \subseteq PossibleFirstAttempts(cl)

\* the key attempted first is an eligible key of the lowest error count
FirstAttemptIsLowest ==
    \A cl \in Callers :
        (calls[cl].pc = "load" /\ EligibleKeys # {}) =>
            \A k \in PossibleFirstAttempts(cl) :
                \A m \in EligibleKeys :
                    ai_api_keys[k].error_count <= ai_api_keys[m].error_count

\* C23: a Router call that has ended after at least one attempt, all of its
\* attempts failed or not, has been counted in a cost record of its agent.
C23_EveryCallCounted ==
    \A cl \in Callers :
        (calls[cl].pc = "done" /\ Len(calls[cl].attempts) > 0) =>
            \E i \in 1..Len(cost_tracking) :
                /\ cost_tracking[i].agent_type = calls[cl].agentType
                /\ cost_tracking[i].api_calls >= 1

\* the key of the attempt a call is handling
AttemptKey(cl) == calls[cl].list[calls[cl].idx]

\* the step that ends a failed attempt of cl adds one to both counters of
\* its key and stores the message of the error
FailureReported(cl) ==
    (calls[cl].pc = "errWrite" /\ calls'[cl] # calls[cl]) =>
        LET k == AttemptKey(cl)
        IN  /\ ai_api_keys'[k].total_requests = ai_api_keys[k].total_requests + 1
            /\ ai_api_keys'[k].error_count = ai_api_keys[k].error_count + 1
            /\ ai_api_keys'[k].last_error_message = calls[cl].errMsg

\* the step that ends a successful attempt of cl adds one to total_requests
\* of its key and leaves error_count as it was
SuccessReported(cl) ==
    (calls[cl].pc = "okWrite" /\ calls'[cl] # calls[cl]) =>
        LET k == AttemptKey(cl)
        IN  /\ ai_api_keys'[k].total_requests = ai_api_keys[k].total_requests + 1
            /\ ai_api_keys'[k].error_count = ai_api_keys[k].error_count

\* a key row changes only in the step that ends an attempt on that key
OnlyAttemptsWrite ==
    \A k \in KeyIds :
        ai_api_keys'[k] # ai_api_keys[k] =>
            \E cl \in Callers :
                /\ calls[cl].pc \in {"errWrite", "okWrite"}
                /\ calls'[cl] # calls[cl]
                /\ AttemptKey(cl) = k

\* C24: with the attempts made one after another, the step that ends an
\* attempt on a key adds exactly one to the key's total_requests; for a failed
\* attempt it also adds one to error_count and stores the error message, for
\* a successful one it leaves error_count unchanged; nothing else changes a key
\* row, and error_count <= total_requests in every state.
C24_AttemptsCounted ==
    /\ [](\A k \in KeyIds : ai_api_keys[k].error_count <= ai_api_keys[k].total_requests)
    /\ [][/\ \A cl \in Callers : FailureReported(cl) /\ SuccessReported(cl)
          /\ OnlyAttemptsWrite]_vars

\* a call has ended with a failed attempt on one key, whose message is
\* stored, and a successful attempt on another
C24_Witness ==
    \E cl \in Callers :
        /\ calls[cl].pc = "done"
        /\ Len(calls[cl].attempts) = 2
        /\ calls[cl].nSuccess = 1
        /\ ai_api_keys[calls[cl].attempts[1]].last_error_message = MsgOther
        /\ ai_api_keys[calls[cl].attempts[2]].last_error_message = <<>>

\* run r makes the search and the AI call of checkCompetition in this step
CompetitiveCalls(r) ==
    runs[r].stage = "competitive" /\ runs[r].pc = "ai" /\ runs'[r] # runs[r]

\* run r makes the autocomplete lookups of a derivative in this step
KeywordCalls(r) ==
    /\ runs[r].stage = "keyword" /\ runs[r].pc = "lookup" /\ runs'[r] # runs[r]
    /\ Len(runs[r].items[runs[r].idx].row.target_keywords) > 0

\* C25: a Competitive Check or Keyword Validation run makes no search,
\* autocomplete or AI call for a derivative once today's spend has reached
\* the daily limit.
C25_NoGateCallOverBudget ==
    [][\A r \in Triggers :
          (CompetitiveCalls(r) \/ KeywordCalls(r))
              => ~isDailyBudgetExceeded(cost_tracking, now).exceeded]_vars

\* the same, for the runs of Keyword Validation alone
KeywordStopsOverBudget ==
    [][\A r \in Triggers :
          KeywordCalls(r) => ~isDailyBudgetExceeded(cost_tracking, now).exceeded]_vars

\* the same, for the runs of Competitive Check alone
CompetitiveStopsOverBudget ==
    [][\A r \in Triggers :
          CompetitiveCalls(r) => ~isDailyBudgetExceeded(cost_tracking, now).exceeded]_vars

\* run r handles, in this step, a derivative whose competitive estimate the
\* Router returned null for
HandlesNullEstimate(r) ==
    /\ runs[r].stage = "competitive"
    /\ runs[r].pc \in {"insert", "update"}
    /\ runs[r].cur.analysis = NoAnalysis
    /\ runs'[r] # runs[r]

\* C26: when the Router returned null for the competitive estimate of a
\* derivative, Competitive Check writes no competitive_checks row for it and
\* leaves its derived_products row as it was.
C26_NullEstimateSkipped ==
    [][\A r \in Triggers :
          HandlesNullEstimate(r) =>
              /\ competitive_checks' = competitive_checks
              /\ derived_products' = derived_products]_vars

\* the groups of two or more signals an Analyst run has merged
MergedGroups(r) ==
    {k \in 1..Len(runs[r].items) : Len(runs[r].items[k].ids) > 1}

\* the representative of every group is a member of the highest traction
PrimaryHasMostTraction ==
    \A r \in Triggers :
        (runs[r].stage = "analyst" /\ runs[r].pc # "select") =>
            \A k \in 1..Len(runs[r].items) :
                \A id \in Range(runs[r].items[k].ids) :
                    Traction(SignalRow(id)) <= Traction(SignalRow(runs[r].items[k].id))

\* once the run is over, the other members of every group are dismissed,
\* with the reason that they were merged with the representative
OthersDismissed ==
    \A r \in Triggers :
        (runs[r].stage = "analyst" /\ runs[r].pc = "done") =>
            \A k \in MergedGroups(r) :
                \A id \in Range(runs[r].items[k].ids) \ {runs[r].items[k].id} :
                    /\ signals[id] = "dismissed"
                    /\ raw_data[id].dismiss_reason = MergedWith(runs[r].items[k].id)

\* C27: the representative of a merged group of signals is a member with the
\* highest stars + comments_count; when the Analyst run is over every other
\* member of the group is 'dismissed', with a merge reason; and a dismissed
\* signal stays dismissed.
C27_MergedAreDismissed ==
    /\ []PrimaryHasMostTraction
    /\ []OthersDismissed
    /\ [][\A id \in Range(SignalIds) :
             signals[id] = "dismissed" => signals'[id] = "dismissed"]_vars

\* an Analyst run that merged a group is over, after its closing loop
C27_Witness ==
    \E r \in Triggers :
        /\ runs[r].stage = "analyst" /\ runs[r].pc = "done"
        /\ runs[r].aiCalls > 0
        /\ \E k \in MergedGroups(r) :
              \E id \in Range(runs[r].items[k].ids) :
                  /\ Traction(SignalRow(id)) < Traction(SignalRow(runs[r].items[k].id))
                  /\ signals[id] = "dismissed"

\* C28: for every estimate d of the days remaining that the model gave,
\* d = 0 included, the stored window_status is 'closing' if d <= 3, 'upcoming'
\* if d > 30 and 'open' otherwise, and window_closes_at is d days after the
\* instant of the evaluation.
C28_WindowFollowsEstimate ==
    (output # NoValue /\ input.kind = "estimate" /\ input.value.given) =>
        LET d == input.value.days
        IN  /\ output.window_status =
                  (IF d <= 3 THEN "closing" ELSE IF d > 30 THEN "upcoming" ELSE "open")
            /\ output.window_closes_at = input.at + d * 86400

\* the same for the estimates other than 0
WindowFollowsPositiveEstimate ==
    (output # NoValue /\ input.kind = "estimate" /\ input.value.given
        /\ input.value.days # 0) =>
        LET d == input.value.days
        IN  /\ output.window_status =
                  (IF d <= 3 THEN "closing" ELSE IF d > 30 THEN "upcoming" ELSE "open")
            /\ output.window_closes_at = input.at + d * 86400

\* the sum of a column over the records of the cost table
RECURSIVE SumColumn(_, _)
SumColumn(tbl, column) ==
    IF Len(tbl) = 0 THEN 0
    ELSE (CASE column = "api_calls"     -> tbl[1].api_calls
            [] column = "tokens_input"  -> tbl[1].tokens_input
            [] column = "tokens_output" -> tbl[1].tokens_output
            [] column = "cost_usd"      -> tbl[1].cost_usd)
         + SumColumn(Tail(tbl), column)

\* both callers have recorded the cost of a successful attempt, and these are
\* the only calls made
BothRecorded ==
    /\ ncalls = 2
    /\ \A cl \in Callers : calls[cl].pc = "done" /\ calls[cl].nSuccess = 1

\* the model a finished call was charged for
ChargedModel(cl) == KeyModel(ai_api_keys[calls[cl].list[calls[cl].idx]])

\* the cost table holds the totals of the two calls
TotalsOfBoth ==
    /\ SumColumn(cost_tracking, "api_calls") = 2
    /\ SumColumn(cost_tracking, "tokens_input") =
           calls["cron"].usage.promptTokens + calls["manual"].usage.promptTokens
    /\ SumColumn(cost_tracking, "tokens_output") =
           calls["cron"].usage.completionTokens + calls["manual"].usage.completionTokens
    /\ SumColumn(cost_tracking, "cost_usd") =
           CostOf(ChargedModel("cron"), calls["cron"].usage.promptTokens,
                  calls["cron"].usage.completionTokens)
           + CostOf(ChargedModel("manual"), calls["manual"].usage.promptTokens,
                    calls["manual"].usage.completionTokens)

\* C29: with two callers recording cost at the same time, no update is lost:
\* once both have recorded, the cost table holds the totals of both calls in
\* api_calls, tokens and cost; there is one record per (date, agent, model);
\* and today's summed spend never decreases.
C29_NoCostUpdateLost ==
    /\ [](BothRecorded => TotalsOfBoth)
    /\ []CostKeysUnique
    /\ [][SumCost(cost_tracking', DateOf(now), 1) >= SumCost(cost_tracking, DateOf(now), 1)]_vars

\* the parts of C29 taken one by one
TotalsKept == BothRecorded => TotalsOfBoth

SpendNeverDecreases ==
    [][SumCost(cost_tracking', DateOf(now), 1) >= SumCost(cost_tracking, DateOf(now), 1)]_vars

\* the position of the brace that closes the object opened before position
\* i, at nesting depth d, braces inside strings not counted; 0 if none
RECURSIVE ClosingBrace(_, _, _, _)
ClosingBrace(s, i, d, inString) ==
    IF i > Len(s) THEN 0
    ELSE IF inString THEN ClosingBrace(s, i + 1, d, s[i] # "\"")
    ELSE IF s[i] = "\"" THEN ClosingBrace(s, i + 1, d, TRUE)
    ELSE IF s[i] = "{" THEN ClosingBrace(s, i + 1, d + 1, FALSE)
    ELSE IF s[i] = "}" THEN (IF d = 1 THEN i ELSE ClosingBrace(s, i + 1, d - 1, FALSE))
    ELSE ClosingBrace(s, i + 1, d, FALSE)

\* the first balanced object substring of s: from the first opening brace to
\* the brace that closes it
FirstBalancedObject(s) ==
    LET a == IndexOfFrom(s, <<"{">>, 1)
        b == IF a = 0 THEN 0 ELSE ClosingBrace(s, a + 1, 1, FALSE)
    IN  IF b = 0 THEN "none" ELSE SubSeq(s, a, b)

\* the text of a reply with its code fence taken off (client.ts:248-250)
Unfenced(text) ==
    LET m1 == FenceMatch(text, Fence \o <<"j","s","o","n","\n">>)
        m2 == FenceMatch(text, Fence \o <<"\n">>)
    IN  IF m1 # "none" THEN m1 ELSE IF m2 # "none" THEN m2 ELSE text

\* the unfenced text holds a complete JSON object as its first balanced
\* object substring
HoldsObject(text) ==
    /\ FirstBalancedObject(Unfenced(text)) # "none"
    /\ JsonParses(FirstBalancedObject(Unfenced(text)))

\* C30: aiGenerateJson, on a text whose first balanced object substring
\* (after a code fence is taken off) is a complete JSON object, returns the
\* parse of that object, whatever follows it; it returns null only for an
\* empty text or a text that holds no such object.
C30_ParsesFirstObject ==
    (input.kind = "text" /\ output # NoValue) =>
        IF input.value # <<>> /\ HoldsObject(input.value)
        THEN output = [kind |-> "json", src |-> FirstBalancedObject(Unfenced(input.value))]
        ELSE TRUE

\* a reply whose object is followed by nothing that holds a closing brace is
\* parsed to that object
ParsesLoneObject ==
    (input.kind = "text" /\ output # NoValue /\ input.value # <<>>
        /\ HoldsObject(input.value)
        /\ BraceMatch(Unfenced(input.value)) = FirstBalancedObject(Unfenced(input.value)))
        => output = [kind |-> "json", src |-> FirstBalancedObject(Unfenced(input.value))]

(***************************************************************************)
(* the Router's candidates and cooldowns, the stages' progress             *)
(***************************************************************************)
\* C31: a call that has returned null from its loop has attempted every
\* candidate that was not in cooldown when the call started, keys that share
\* a (provider, model) pair included; a call that succeeded has attempted
\* every such candidate placed before the one that succeeded; no candidate is
\* attempted twice.
C31_EveryFreeCandidateTried ==
    \A cl \in Callers :
        LET cr == calls[cl]
        IN  (cr.pc = "done" /\ ~cr.threw) =>
                /\ \A i, j \in 1..Len(cr.attempts) : i # j => cr.attempts[i] # cr.attempts[j]
                /\ cr.nSuccess = 0 => cr.freeAtStart \subseteq Range(cr.attempts)
                /\ cr.nSuccess = 1 =>
                      \A k \in cr.freeAtStart :
                          Pos(cr.list, k) < Pos(cr.list, cr.attempts[Len(cr.attempts)])
                              => k \in Range(cr.attempts)

\* the same on the pools whose keys have a (provider, model) pair each
PairsDistinct ==
    \A k, m \in KeyIds :
        (k # m /\ ai_api_keys[k].is_active /\ ai_api_keys[m].is_active)
            => KeyPair(ai_api_keys, k) # KeyPair(ai_api_keys, m)

FreeCandidatesTriedOnDistinctPairs == PairsDistinct => C31_EveryFreeCandidateTried

\* the signals of the batch of a finished Analyst run that the run obtained
\* no assessment for: the budget check broke the loop before them, or the
\* Router returned null
Unassessed(r) ==
    {runs[r].items[k].id : k \in 1..Len(runs[r].items)} \ runs[r].assessed

\* a signal becomes 'evaluated' only in a run that has its assessment
EvaluatedOnlyWhenAssessed ==
    \A id \in Range(SignalIds) :
        (signals[id] # "evaluated" /\ signals'[id] = "evaluated") =>
            \E r \in Triggers : runs[r].stage = "analyst" /\ id \in runs[r].assessed

\* C32: runAnalyst moves a signal to 'evaluated' only after it obtained an
\* assessment for it in that run; when the run is over, a signal of its batch
\* that the budget check or a null reply of the Router left without an
\* assessment is still 'analyzed', so that the next run selects it.
C32_UnassessedStaysAnalyzed ==
    /\ [](\A r \in Triggers :
             (runs[r].stage = "analyst" /\ runs[r].pc = "done") =>
                 \A id \in Unassessed(r) :
                     /\ signals[id] = "analyzed"
                     /\ \E k \in 1..Len(SelectSignals(signals, "analyzed")) :
                            SelectSignals(signals, "analyzed")[k].id = id)
    /\ [][EvaluatedOnlyWhenAssessed]_vars

\* an Analyst run is over, after its closing loop, that called the Router
\* and left a signal of its batch without an assessment
C32_Witness ==
    \E r \in Triggers :
        /\ runs[r].stage = "analyst" /\ runs[r].pc = "done"
        /\ runs[r].aiCalls > 0
        /\ Unassessed(r) # {}
        /\ \E id \in Unassessed(r) : signals[id] = "analyzed"

\* today's budget is spent
BudgetGone == isDailyBudgetExceeded(cost_tracking, now).exceeded

\* the Router has come back to the running stage with nothing
RouterFailed == \E r \in Triggers : runs[r].nullReplies > 0

\* opportunity o is 'evaluated', scores 55 or more and owns no derivative
WaitingOpp(o) ==
    /\ o <= Len(opportunities)
    /\ opportunities[o].status = "evaluated"
    /\ opportunities[o].score >= DERIVER_MIN_SCORE
    /\ CountDerived(derived_products, o) = 0

\* a Deriver run has selected o and is at the Router call for it or at one
\* of the ideas the call came back with (part_009:706-759)
DerivedFrom(o) ==
    \E r \in Triggers :
        /\ runs[r].stage = "deriver"
        /\ runs[r].pc \in {"ai", "dupSlug", "dupRecent", "insert"}
        /\ runs[r].items[runs[r].idx] = o

\* C33: with Deriver runs repeated, an 'evaluated' opportunity of score 55
\* or more without a derivative is eventually selected and processed by a
\* run, unless the budget runs out or the Router fails first, however many
\* opportunities of a higher score own derivatives.
C33_WaitingEventuallyDerived ==
    \A o \in {DERIVER_MAX_PER_RUN, DERIVER_MAX_PER_RUN + 1} :
        WaitingOpp(o) ~> (DerivedFrom(o) \/ BudgetGone \/ RouterFailed)

\* the same for the opportunities among the ten of the highest score
TopTenEventuallyDerived ==
    \A o \in {DERIVER_MAX_PER_RUN - 1, DERIVER_MAX_PER_RUN} :
        WaitingOpp(o) ~> (DerivedFrom(o) \/ BudgetGone \/ RouterFailed)

\* the derivative stored first is out of the pipeline's waiting state
Settled == derived_products[1].status \in {"validated", "rejected"}

\* C34: with the two gates run again and again, a derivative of status
\* 'derived' eventually is 'validated' or 'rejected', unless the budget runs
\* out or the Router fails first; so for a derivative without a keyword.
C34_DerivedEventuallySettled ==
    (derived_products[1].status = "derived") ~> (Settled \/ BudgetGone \/ RouterFailed)

\* the derivative has keywords, and the Keyword Validator has looked them up
LookedUp ==
    /\ Len(derived_products[1].target_keywords) > 0
    /\ derived_products[1].nKeyword > 0

\* the Competitive Check has checked the derivative
Checked == derived_products[1].nCompetitive > 0

\* what the gates do reach: a derivative is checked by the Competitive Check
DerivedEventuallyChecked ==
    (derived_products[1].status = "derived") ~> (Checked \/ BudgetGone)

\* the keys caller c passes over in this step: the for loop of client.ts:204
\* moves from one candidate to a later one and leaves out those in between
SkippedBy(c) ==
    IF calls'[c].idx > calls[c].idx
    THEN {calls'[c].list[p] : p \in (calls[c].idx + 1)..(calls'[c].idx - 1)}
    ELSE {}

\* the (provider, model) pairs of the keys in ks
PairsOf(ks) == {KeyPair(ai_api_keys, k) : k \in ks}

\* a key is passed over only while the cooldown of its pair runs: the pair
\* has had an error of the quota class, and its cooldown ends now or later
\* and at most 60 s from now
SkippedOnlyInCooldown ==
    \A c \in Callers : \A pk \in PairsOf(SkippedBy(c)) :
        /\ lastQuotaError[pk] # -1
        /\ pk \in DOMAIN exhaustedProviderCache'
        /\ now <= exhaustedProviderCache'[pk]
        /\ exhaustedProviderCache'[pk] <= now + QUOTA_CACHE_TTL_MS
        /\ lastQuotaError[pk] + QUOTA_CACHE_TTL_MS <= exhaustedProviderCache'[pk]

\* the catch block has recorded the error (client.ts:220): the cooldown of
\* the pair starts now if the message is of the quota class, and no
\* cooldown starts or grows if it is not
CooldownStartsOnQuotaOnly ==
    \A c \in Callers :
        calls[c].pc = "errWrite" /\ calls'[c] # calls[c] =>
            LET pk == KeyPair(ai_api_keys, calls[c].list[calls[c].idx])
            IN  IF isQuotaExceededError(calls[c].errMsg)
                THEN /\ pk \in DOMAIN exhaustedProviderCache'
                     /\ exhaustedProviderCache'[pk] = now + QUOTA_CACHE_TTL_MS
                ELSE \A q \in DOMAIN exhaustedProviderCache' :
                        /\ q \in DOMAIN exhaustedProviderCache
                        /\ exhaustedProviderCache'[q] = exhaustedProviderCache[q]

\* C35 as amended: a pair is skipped only while its cooldown runs, which
\* starts when the catch block has recorded a failure whose message
\* contains one of the five signatures and ends 60 s later; a failure with
\* another message or a timeout starts none, and a pair whose cooldown has
\* run out is not skipped.
C35_SkippedOnlyInCooldown ==
    [][SkippedOnlyInCooldown /\ CooldownStartsOnQuotaOnly]_vars

\* C35 as stated: a pair is skipped only if an attempt on it failed with an
\* error of the quota class during the previous 60 seconds.
C35_SkippedWithin60sOfError ==
    [][\A c \in Callers : \A pk \in PairsOf(SkippedBy(c)) :
          /\ lastQuotaError[pk] # -1
          /\ now <= lastQuotaError[pk] + QUOTA_CACHE_TTL_MS]_vars

\* a call has returned null with every candidate passed over or failed, one
\* of them passed over in the cooldown that the relay's message started
C35_Witness ==
    \E c \in Callers :
        /\ calls[c].pc = "done" /\ calls[c].nSuccess = 0 /\ ~calls[c].threw
        /\ \E k \in Range(calls[c].list) \ Range(calls[c].attempts) :
              /\ KeyPair(ai_api_keys, k) \in DOMAIN exhaustedProviderCache
              /\ \E k2 \in KeyIds :
                    /\ KeyPair(ai_api_keys, k2) = KeyPair(ai_api_keys, k)
                    /\ ai_api_keys[k2].last_error_message = MsgNoChannel

\* the cache as the catch block leaves it before the loop goes on
\* (client.ts:221-223); for a step that is not the end of a catch block,
\* the cache as it is
CacheBeforeLoop(c) ==
    IF calls[c].pc = "errWrite" /\ isQuotaExceededError(calls[c].errMsg)
    THEN markProviderExhausted(exhaustedProviderCache,
                               KeyPair(ai_api_keys, calls[c].list[calls[c].idx]), now)
    ELSE exhaustedProviderCache

\* the keys passed over in a step keep their rows, their pairs keep the end
\* of their cooldown, and no cost row changes
SkipLeavesNoTrace ==
    \A c \in Callers :
        SkippedBy(c) # {} =>
            /\ \A k \in SkippedBy(c) : ai_api_keys'[k] = ai_api_keys[k]
            /\ \A pk \in PairsOf(SkippedBy(c)) :
                  /\ pk \in DOMAIN exhaustedProviderCache'
                  /\ exhaustedProviderCache'[pk] = CacheBeforeLoop(c)[pk]
            /\ cost_tracking' = cost_tracking

\* a call that passes over every candidate returns null and leaves the
\* keys, the cooldowns and the cost rows as they were
AllSkippedChangesNothing ==
    \A c \in Callers :
        (/\ calls[c].pc = "load" /\ calls'[c].pc = "done"
         /\ Len(calls'[c].list) > 0) =>
            /\ calls'[c].result = NullResult
            /\ calls'[c].attempts = <<>>
            /\ ai_api_keys' = ai_api_keys
            /\ exhaustedProviderCache' = exhaustedProviderCache
            /\ cost_tracking' = cost_tracking

\* C36: a candidate skipped in its cooldown keeps its error_count, its
\* total_requests and its last error, its pair keeps the end of the
\* cooldown, and no cost row changes; a call with all candidates in
\* cooldown returns null and has changed nothing that is stored.
C36_SkipHasNoSideEffect ==
    [][SkipLeavesNoTrace /\ AllSkippedChangesNothing]_vars

\* a call has found every candidate in cooldown and returned null
C36_Witness ==
    \E c \in Callers :
        /\ calls[c].pc = "done" /\ calls[c].result = NullResult
        /\ Len(calls[c].list) > 1
        /\ calls[c].attempts = <<>>

\* what isDailyBudgetExceeded returns now
BudgetNow == isDailyBudgetExceeded(cost_tracking, now)

\* within a day a step takes nothing off the day's spend, and leaves the
\* budget exceeded if it was
SpendGrows ==
    DateOf(now') = DateOf(now) =>
        LET after == isDailyBudgetExceeded(cost_tracking', now')
        IN  /\ after.spent >= BudgetNow.spent
            /\ BudgetNow.exceeded => after.exceeded

\* C37: with the cost recorded by one run at a time, the spend of the day
\* never goes down within the day, and once isDailyBudgetExceeded has
\* returned exceeded = true to a run, it returns true for the rest of the
\* day.
C37_ExceededStaysExceeded ==
    /\ [][SpendGrows]_vars
    /\ [](\A r \in Triggers : runs[r].sawExceeded => BudgetNow.exceeded)

\* a run has called the Router and paid for it, and then found the budget
\* of the day exceeded
C37_Witness ==
    \E r \in Triggers :
        /\ runs[r].aiCalls > 0
        /\ runs[r].sawExceeded
        /\ BudgetNow.spent > runs[r].lastBudget.limit

\* run r writes the outcome of the pre-filter of a signal in this step
ScoutWrites(r) ==
    /\ runs[r].stage = "scout" /\ runs[r].pc = "update"
    /\ runs'[r] # runs[r]

\* C38: the Scout pre-filter dismisses a raw signal only when an assessment
\* was obtained that says it is not emerging; when the Router returns null,
\* the signal keeps status 'raw'.
C38_NullKeepsRaw ==
    [][\A r \in Triggers :
          ScoutWrites(r) =>
              LET id == runs[r].items[runs[r].idx]
              IN  /\ signals'[id] = "dismissed" => runs[r].cur.kind = "stale"
                  /\ runs[r].cur.kind = "null" => signals'[id] = "raw"]_vars

\* what the pre-filter does: a signal assessed as emerging becomes
\* 'analyzed', every other one 'dismissed'
EmergingOrDismissed ==
    [][\A r \in Triggers :
          ScoutWrites(r) =>
              LET id == runs[r].items[runs[r].idx]
              IN  signals'[id] = IF runs[r].cur.kind = "emerging" THEN "analyzed"
                                 ELSE "dismissed"]_vars

\* the place of signal sig in the batch
PlaceInBatch(sig) == CHOOSE i \in 1..Len(batch) : batch[i].id = sig.id

\* the two signals have the same normalized source URL, and it is not empty
ShareUrl(a, b) ==
    /\ NormalizeUrl(a.source_url) # <<>>
    /\ NormalizeUrl(a.source_url) = NormalizeUrl(b.source_url)

\* C39: in every group the first member is the earliest of the group in the
\* batch, and every other member has topic-word similarity >= 0.4 with the
\* first or shares its non-empty normalized source URL; a signal with an
\* empty URL is in the group of another only by similarity.
C39_MembersMatchFirst ==
    grouped =>
        \A g \in 1..Len(groups) : \A k \in 2..Len(groups[g]) :
            LET first == groups[g][1]
                other == groups[g][k]
            IN  /\ PlaceInBatch(first) < PlaceInBatch(other)
                /\ SimilarSignals(first, other) \/ ShareUrl(first, other)
                /\ (\/ NormalizeUrl(first.source_url) = <<>>
                    \/ NormalizeUrl(other.source_url) = <<>>)
                      => SimilarSignals(first, other)

\* a batch grouped with a member that joined its group by the URL alone,
\* and with a signal of an empty URL that is in no group but its own
C39_Witness ==
    /\ grouped
    /\ \E g \in 1..Len(groups) : \E k \in 2..Len(groups[g]) :
          /\ ~SimilarSignals(groups[g][1], groups[g][k])
          /\ ShareUrl(groups[g][1], groups[g][k])
    /\ \E g \in 1..Len(groups) :
          /\ Len(groups[g]) = 1
          /\ NormalizeUrl(groups[g][1].source_url) = <<>>

\* two signals of an empty URL, not similar, are in two groups
EmptyUrlsApart ==
    /\ grouped
    /\ \E g, h \in 1..Len(groups) :
          /\ g # h
          /\ NormalizeUrl(groups[g][1].source_url) = <<>>
          /\ NormalizeUrl(groups[h][1].source_url) = <<>>

====
